---------------------------- MODULE Spec2Model ----------------------------
(***************************************************************************)
(* Model of the EnCode analysis pipeline: the browser client               *)
(* (src/services/analysis.js, src/services/history.js, App.jsx) and the    *)
(* analyze_product edge function, in its two versions found in the         *)
(* repository (supabase/functions/analyze_product/index.ts and the copy    *)
(* that follows the table definition in supabase/schema.sql).              *)
(*                                                                         *)
(* Strings are modelled by what the code asks of them.  An ingredient      *)
(* text is a record: leading blanks, a list of vocabulary words joined by  *)
(* ", " or " ", a run of filler characters, trailing blanks.  An error     *)
(* message is a record: a text and the set of marker substrings the code   *)
(* tests with String.includes.  A JSON value carries its JavaScript type.  *)
(***************************************************************************)
EXTENDS Integers, Sequences, FiniteSets, TLC

(***************************************************************************)
(* Bounds of the exploration                                               *)
(***************************************************************************)
MaxPrior == 1
MaxToks == 1
TickParts == 1

(***************************************************************************)
(* Program constants                                                       *)
(***************************************************************************)
MIN_INPUT_LENGTH == 10
MAX_INPUT_LENGTH == 5000
MAX_HISTORY_ITEMS == 50
MAX_RETRIES == 2
TIMEOUT_MS == 60000
BACKOFF_BASE_MS == 1000

Users == {"alice", "bob"}

RECURSIVE Pow2(_)
Pow2(n) == IF n <= 0 THEN 1 ELSE 2 * Pow2(n - 1)

Take(s, n) == IF Len(s) <= n THEN s ELSE SubSeq(s, 1, n)

(***************************************************************************)
(* JSON values                                                             *)
(***************************************************************************)
JStr(s) == [t |-> "string", s |-> s, n |-> 0, items |-> <<>>]
JTpl(s, n) == [t |-> "string", s |-> s, n |-> n, items |-> <<>>]
JNum(n) == [t |-> "number", s |-> "", n |-> n, items |-> <<>>]
JUndef == [t |-> "undefined", s |-> "", n |-> 0, items |-> <<>>]
JNull == [t |-> "null", s |-> "", n |-> 0, items |-> <<>>]
JArr(items) == [t |-> "array", s |-> "", n |-> 0, items |-> items]

Get(obj, k) == IF k \in DOMAIN obj THEN obj[k] ELSE JUndef

(***************************************************************************)
(* Ingredient text                                                         *)
(***************************************************************************)
Vocabulary ==
  {"water", "sugar", "citric acid", "sodium benzoate", "red 40",
   "natural flavor", "sea salt", "soy lecithin", "corn syrup",
   "asdf", "qwer", "zxcv"}

WordLen(w) ==
  CASE w = "water" -> 5
    [] w = "sugar" -> 5
    [] w = "citric acid" -> 11
    [] w = "sodium benzoate" -> 15
    [] w = "red 40" -> 6
    [] w = "natural flavor" -> 14
    [] w = "sea salt" -> 8
    [] w = "soy lecithin" -> 12
    [] w = "corn syrup" -> 10
    [] OTHER -> 4

\* the keywords of analysis.js that occur as substrings of a vocabulary word
Kw(w) ==
  CASE w = "water" -> {"water"}
    [] w = "sugar" -> {"sugar"}
    [] w = "citric acid" -> {"acid"}
    [] w = "sodium benzoate" -> {"sodium", "benzoate"}
    [] w = "red 40" -> {"red 40"}
    [] w = "natural flavor" -> {"natural", "flavor", "natural flavor"}
    [] w = "sea salt" -> {"salt", "sea salt"}
    [] w = "soy lecithin" -> {"soy", "lecithin"}
    [] w = "corn syrup" -> {"corn", "syrup", "corn syrup"}
    [] OTHER -> {}

Text(lead, words, comma, upper, fill, trail) ==
  [str |-> TRUE, lead |-> lead, words |-> words, comma |-> comma,
   upper |-> upper, fill |-> fill, trail |-> trail]

NotAString == [str |-> FALSE, lead |-> 0, words |-> <<>>, comma |-> FALSE,
               upper |-> FALSE, fill |-> 0, trail |-> 0]

RECURSIVE SumLen(_)
SumLen(ws) == IF ws = <<>> THEN 0 ELSE WordLen(Head(ws)) + SumLen(Tail(ws))

SepLen(x) == IF x.comma THEN 2 ELSE 1

BodyLength(x) ==
  SumLen(x.words)
  + (IF Len(x.words) > 1 THEN (Len(x.words) - 1) * SepLen(x) ELSE 0)
  + x.fill

Length(x) == x.lead + BodyLength(x) + x.trail

trim(x) ==
  IF BodyLength(x) = 0
  THEN [x EXCEPT !.lead = 0, !.trail = 0, !.words = <<>>, !.fill = 0]
  ELSE [x EXCEPT !.lead = 0, !.trail = 0]

toLowerCase(x) == [x EXCEPT !.upper = FALSE]

includes(x, kw) == ~x.upper /\ \E i \in 1..Len(x.words) : kw \in Kw(x.words[i])

commaCount(x) ==
  IF x.comma /\ Len(x.words) > 1 THEN Len(x.words) - 1 ELSE 0

(***************************************************************************)
(* Messages                                                                *)
(***************************************************************************)
NetworkTokens ==
  {"Failed to send a request", "Failed to fetch", "CORS", "ERR_FAILED",
   "FunctionsFetchError"}

Tokens ==
  NetworkTokens \cup {"non-2xx", "AuthApiError", "401", "unauthorized", "fetch"}

Msg(text, toks) == [text |-> text, toks |-> toks]

NoMsg == Msg("", {})

msgIncludes(m, tok) == tok \in m.toks

Truthy(m) == m.text # ""

\* a || b on message strings
OrElse(m, d) == IF Truthy(m) THEN m ELSE d

E_ENTER_TEXT == Msg("Please enter ingredient text", {})
E_TOO_SHORT ==
  Msg("Please enter a complete ingredient list (at least 10 characters)", {})
E_TOO_LONG ==
  Msg("Ingredient list is too long. Please limit to 5000 characters.", {})
E_SESSION_ERROR == Msg("Session error. Please sign in again.", {})
E_MUST_SIGN_IN ==
  Msg("You must be signed in to analyze ingredients. Please sign in and try again.", {})
E_UNREACHABLE ==
  Msg("Unable to reach the analysis service. Please check your connection and try again.", {})
E_SERVICE_ERROR == Msg("Analysis service error. Please try again in a moment.", {})
E_SESSION_EXPIRED == Msg("Session expired. Please sign in again.", {})
E_INVALID_REQUEST == Msg("Invalid request to analysis service.", {})
E_FAILED == Msg("Failed to analyze ingredients. Please try again.", {})
E_INVALID_RESPONSE ==
  Msg("Invalid response from analysis service. Please try again.", {})
E_INCOMPLETE == Msg("Incomplete analysis response. Please try again.", {})
E_TOO_LONG_RUNNING ==
  Msg("Analysis is taking too long. Please try again with a shorter ingredient list.", {})
E_UNABLE ==
  Msg("Unable to analyze ingredients. Please check your connection and try again.", {})
E_ABORTED == Msg("The operation was aborted.", {})

(***************************************************************************)
(* analysis.js: validateInput                                              *)
(***************************************************************************)
validateInput_minExclusive(ingredients) ==
  IF ~ingredients.str \/ Length(ingredients) = 0
  THEN [valid |-> FALSE, error |-> E_ENTER_TEXT, text |-> NotAString]
  ELSE LET trimmed == trim(ingredients) IN
       IF Length(trimmed) <= MIN_INPUT_LENGTH
       THEN [valid |-> FALSE, error |-> E_TOO_SHORT, text |-> NotAString]
       ELSE IF Length(trimmed) > MAX_INPUT_LENGTH
       THEN [valid |-> FALSE, error |-> E_TOO_LONG, text |-> NotAString]
       ELSE [valid |-> TRUE, error |-> NoMsg, text |-> trimmed]

validateInput(ingredients) ==
  IF ~ingredients.str \/ Length(ingredients) = 0
  THEN [valid |-> FALSE, error |-> E_ENTER_TEXT, text |-> NotAString]
  ELSE LET trimmed == trim(ingredients) IN
       IF Length(trimmed) < MIN_INPUT_LENGTH
       THEN [valid |-> FALSE, error |-> E_TOO_SHORT, text |-> NotAString]
       ELSE IF Length(trimmed) > MAX_INPUT_LENGTH
       THEN [valid |-> FALSE, error |-> E_TOO_LONG, text |-> NotAString]
       ELSE [valid |-> TRUE, error |-> NoMsg, text |-> trimmed]

(***************************************************************************)
(* analysis.js: the fallback heuristic                                     *)
(***************************************************************************)
ingredientSignals ==
  {"water", "salt", "sugar", "flour", "oil", "acid", "flavor", "extract",
   "starch", "syrup", "milk", "cream", "butter", "egg", "wheat", "soy",
   "corn", "rice", "vitamin", "sodium", "calcium", "potassium", "natural",
   "artificial", "modified", "hydrolyzed", "concentrate", "powder", "dried"}

sweeteners ==
  {"sugar", "fructose", "glucose", "corn syrup", "dextrose", "sucralose",
   "acesulfame", "aspartame", "honey", "molasses", "stevia"}

preservatives ==
  {"benzoate", "sorbate", "nitrite", "nitrate", "propionate", "sulfite",
   "bht", "bha", "tbhq"}

emulsifiers ==
  {"lecithin", "gum", "carrageenan", "polysorbate", "mono-", "di-",
   "xanthan", "gellan", "pectin"}

colors ==
  {"red 40", "yellow 5", "yellow 6", "blue 1", "caramel color", "annatto",
   "beta carotene"}

naturalIndicators ==
  {"organic", "natural flavor", "sea salt", "cane sugar", "whole grain"}

Matches(list, lower) == {s \in list : includes(lower, s)}

looksLikeIngredients_commasSuffice(text) ==
  LET lower == toLowerCase(text)
      matchCount == Cardinality(Matches(ingredientSignals, lower))
      hasCommas == commaCount(text) >= 2
  IN matchCount >= 2 \/ hasCommas

looksLikeIngredients(text) ==
  LET lower == toLowerCase(text)
      matchCount == Cardinality(Matches(ingredientSignals, lower))
      hasCommas == commaCount(text) >= 2
  IN matchCount >= 2 \/ (hasCommas /\ matchCount >= 1)

Obs(observation, why) ==
  [observation |-> JStr(observation), why |-> why]

NotIngredientsResult ==
  [judgment |-> JStr("This doesn't look like an ingredient list. Paste what you see on the package."),
   observations |-> JArr(<<Obs("Nothing to go on",
       JStr("Without actual ingredients, there's no way to frame what kind of product this is."))>>),
   tradeoff |-> JStr("Pasting real ingredients gives you clarity; skipping that step leaves you guessing."),
   limitations |-> JStr("Can't determine product type, purpose, or what kind of decision this represents."),
   confidence |-> JStr("low")]

limitObservations_noLimit(observations) == observations

\* analysis.js line 364: observations.slice(0, 3)
limitObservations(observations) == Take(observations, 3)

fallbackConfidence_mediumAtTwo(topCount) ==
  IF topCount >= 2 THEN "medium" ELSE "low"

\* analysis.js lines 366-371
fallbackConfidence(topCount) ==
  IF topCount >= 3 THEN "medium"
  ELSE IF topCount >= 2 THEN "low" ELSE "low"

buildFallbackAnalysis(text) ==
  IF ~looksLikeIngredients(text) THEN NotIngredientsResult
  ELSE
  LET lower == toLowerCase(text)
      ingredientCount == commaCount(text) + 1
      sweetenerMatches == Cardinality(Matches(sweeteners, lower))
      preservativeMatches == Cardinality(Matches(preservatives, lower))
      emulsifierMatches == Cardinality(Matches(emulsifiers, lower))
      colorMatches == Cardinality(Matches(colors, lower))
      naturalMatches == Cardinality(Matches(naturalIndicators, lower))
      o1 == IF ingredientCount > 15
            THEN <<Obs("Long ingredient list", JTpl("Around N ingredients", ingredientCount))>>
            ELSE IF ingredientCount <= 5
            THEN <<Obs("Short, simple list", JTpl("Only about N ingredients", ingredientCount))>>
            ELSE <<>>
      o2 == IF sweetenerMatches > 1
            THEN <<Obs("Multiple sweetening agents", JStr("more than one sweetener"))>>
            ELSE IF sweetenerMatches = 1
            THEN <<Obs("Sweetness is central", JStr("a sweetener listed"))>>
            ELSE <<>>
      o3 == IF preservativeMatches > 0
            THEN <<Obs("Built to last on a shelf", JStr("preservatives"))>>
            ELSE <<>>
      o4 == IF emulsifierMatches > 0
            THEN <<Obs("Texture is engineered", JStr("stabilizers and emulsifiers"))>>
            ELSE <<>>
      o5 == IF colorMatches > 0
            THEN <<Obs("Color is added for appeal", JStr("added colors"))>>
            ELSE <<>>
      o6 == IF naturalMatches >= 2
            THEN <<Obs("Positioned as natural", JStr("organic or natural"))>>
            ELSE <<>>
      triggered == o1 \o o2 \o o3 \o o4 \o o5 \o o6
      observations == IF Len(triggered) = 0
                      THEN <<Obs("Standard product", JStr("nothing stands out"))>>
                      ELSE triggered
      topObservations == limitObservations(observations)
      confidence == fallbackConfidence(Len(topObservations))
      gains == (IF sweetenerMatches > 0 THEN <<"taste">> ELSE <<>>)
               \o (IF preservativeMatches > 0 THEN <<"shelf life">> ELSE <<>>)
               \o (IF emulsifierMatches > 0 THEN <<"consistent texture">> ELSE <<>>)
               \o (IF ingredientCount <= 5 THEN <<"simplicity">> ELSE <<>>)
      costs == (IF ingredientCount > 10 THEN <<"simplicity">> ELSE <<>>)
               \o (IF preservativeMatches > 0 \/ emulsifierMatches > 0
                   THEN <<"minimal ingredients">> ELSE <<>>)
      gainText == IF Len(gains) > 0 THEN Take(gains, 2) ELSE <<"convenience">>
      costText == IF Len(costs) > 0 THEN Take(costs, 2)
                  ELSE <<"a shorter ingredient list">>
      productType == IF ingredientCount > 10
                     THEN "convenience-oriented product"
                     ELSE "relatively straightforward product"
  IN [judgment |-> JStr(productType),
      observations |-> JArr(topObservations),
      tradeoff |-> [t |-> "string", s |-> "You get G; you give up C.", n |-> 0,
                    items |-> <<gainText, costText>>],
      limitations |-> JStr("Can't determine exact quantities, how often you eat this, or how it fits into your day. This is a rough read based on the ingredient list alone."),
      confidence |-> JStr(confidence)]

(***************************************************************************)
(* history.js: the local history cache                                     *)
(***************************************************************************)
Obj(f) == [t |-> "object", f |-> f]

Merge(a, b) ==
  [k \in (DOMAIN a) \cup (DOMAIN b) |-> IF k \in DOMAIN b THEN b[k] ELSE a[k]]

IsTruthy(v) ==
  /\ v.t \notin {"undefined", "null"}
  /\ ~(v.t = "string" /\ v.s = "")
  /\ ~(v.t = "number" /\ v.n = 0)

LocalId(k) == JTpl("local", k)
ServerId(k) == JTpl("uuid", k)
Timestamp(k) == JTpl("ts", k)

\* readLocalHistory: the stored list, or [] when localStorage is missing
readLocalHistory(hasStorage, store) ==
  IF ~hasStorage THEN <<>> ELSE Take(store, MAX_HISTORY_ITEMS)

writeLocalHistory_noSlice(hasStorage, writeOk, store, items) ==
  IF ~hasStorage \/ ~writeOk THEN store ELSE items

\* writeLocalHistory: the new content of the store; a setItem that throws
\* (writeOk = FALSE) and a missing localStorage leave it as it was
writeLocalHistory(hasStorage, writeOk, store, items) ==
  IF ~hasStorage \/ ~writeOk THEN store ELSE Take(items, MAX_HISTORY_ITEMS)

withId(entry, freshId, clock) ==
  Merge([id |-> IF IsTruthy(Get(entry, "id")) THEN entry.id ELSE LocalId(freshId),
         created_at |-> IF IsTruthy(Get(entry, "created_at"))
                        THEN entry.created_at ELSE Timestamp(clock)],
        entry)

saveLocalAnalysis(hasStorage, writeOk, store, entry, freshId, clock) ==
  LET existing == readLocalHistory(hasStorage, store)
  IN writeLocalHistory(hasStorage, writeOk, store,
                       <<withId(entry, freshId, clock)>> \o existing)

(***************************************************************************)
(* The edge function: output of the model and its validation               *)
(***************************************************************************)
Factor(factor, explanation) == [t |-> "object", factor |-> factor, explanation |-> explanation]
Observation(observation, why) == [t |-> "object", observation |-> observation, why |-> why]

GoodV1 ==
  Obj([judgment |-> JStr("J"), tradeoffs |-> JStr("T"), uncertainty |-> JStr("U"),
       confidence |-> JStr("medium"),
       key_factors |-> JArr(<<Factor(JStr("f1"), JStr("e1")), Factor(JStr("f2"), JStr("e2"))>>)])

GoodV2 ==
  Obj([judgment |-> JStr("J"), tradeoff |-> JStr("T"), limitations |-> JStr("U"),
       confidence |-> JStr("high"),
       observations |-> JArr(<<Observation(JStr("o1"), JStr("w1")),
                               Observation(JStr("o2"), JStr("w2"))>>)])

\* what the model endpoint can answer for one attempt
LLMOutcomes ==
  << [kind |-> "http_error", data |-> JNull],
     [kind |-> "bad_json", data |-> JNull],
     [kind |-> "parsed", data |-> [t |-> "null", f |-> [judgment |-> JUndef]]],
     [kind |-> "parsed", data |-> GoodV1],
     [kind |-> "parsed", data |-> GoodV2],
     [kind |-> "parsed", data |-> Obj([k \in DOMAIN GoodV1.f \ {"confidence"} |-> GoodV1.f[k]])],
     [kind |-> "parsed", data |-> Obj([k \in DOMAIN GoodV2.f \ {"confidence"} |-> GoodV2.f[k]])],
     [kind |-> "parsed", data |-> Obj([GoodV1.f EXCEPT !.confidence = JStr("certain")])],
     [kind |-> "parsed", data |-> Obj([GoodV2.f EXCEPT !.confidence = JStr("certain")])],
     [kind |-> "parsed", data |-> Obj([GoodV1.f EXCEPT !.key_factors = JArr(<<>>)])],
     [kind |-> "parsed", data |-> Obj([GoodV2.f EXCEPT !.observations = JArr(<<>>)])],
     [kind |-> "parsed", data |-> Obj([GoodV1.f EXCEPT !.key_factors = JStr("f1, f2")])],
     [kind |-> "parsed", data |-> Obj([GoodV1.f EXCEPT !.key_factors =
                                         JArr(<<Factor(JStr("f1"), JNum(7))>>)])],
     [kind |-> "parsed", data |-> Obj([GoodV2.f EXCEPT !.observations =
                                         JArr(<<Observation(JStr("o1"), JUndef)>>)])],
     [kind |-> "parsed", data |-> Obj([GoodV1.f EXCEPT !.judgment = JNum(1)])] >>

Confidences == {"low", "medium", "high"}

validateResponse_noItemCheck(data) ==
  /\ data.t = "object"
  /\ Get(data.f, "judgment").t = "string"
  /\ Get(data.f, "tradeoffs").t = "string"
  /\ Get(data.f, "uncertainty").t = "string"
  /\ Get(data.f, "confidence").t = "string"
  /\ Get(data.f, "confidence").s \in Confidences
  /\ Get(data.f, "key_factors").t = "array"

\* index.ts lines 114-132
validateResponse(data) ==
  /\ data.t = "object"
  /\ Get(data.f, "judgment").t = "string"
  /\ Get(data.f, "tradeoffs").t = "string"
  /\ Get(data.f, "uncertainty").t = "string"
  /\ Get(data.f, "confidence").t = "string"
  /\ Get(data.f, "confidence").s \in Confidences
  /\ Get(data.f, "key_factors").t = "array"
  /\ \A i \in 1..Len(Get(data.f, "key_factors").items) :
       LET factor == Get(data.f, "key_factors").items[i] IN
         /\ factor.t = "object"
         /\ Get(factor, "factor").t = "string"
         /\ Get(factor, "explanation").t = "string"

\* the version in schema.sql
validateResponseV2(data) ==
  /\ data.t = "object"
  /\ Get(data.f, "judgment").t = "string"
  /\ Get(data.f, "tradeoff").t = "string"
  /\ Get(data.f, "limitations").t = "string"
  /\ Get(data.f, "confidence").t = "string"
  /\ Get(data.f, "confidence").s \in Confidences
  /\ Get(data.f, "observations").t = "array"
  /\ \A i \in 1..Len(Get(data.f, "observations").items) :
       LET obs == Get(data.f, "observations").items[i] IN
         /\ obs.t = "object"
         /\ Get(obs, "observation").t = "string"
         /\ Get(obs, "why").t = "string"

Validates(version, data) ==
  IF version = "index.ts" THEN validateResponse(data) ELSE validateResponseV2(data)

\* callLLM: the parsed output, or a raise
callLLM(version, outcome) ==
  IF outcome.kind = "parsed" /\ Validates(version, outcome.data)
  THEN [ok |-> TRUE, value |-> outcome.data]
  ELSE [ok |-> FALSE, value |-> outcome.data]

\* the values of the inserted row
InsertValues_fixedOwner(version, user, trimmedInput, llmResponse) ==
  IF version = "index.ts"
  THEN [user_id |-> JStr("alice"), input_text |-> trimmedInput,
        judgment |-> Get(llmResponse.f, "judgment"),
        key_factors |-> Get(llmResponse.f, "key_factors"),
        tradeoffs |-> Get(llmResponse.f, "tradeoffs"),
        uncertainty |-> Get(llmResponse.f, "uncertainty"),
        confidence |-> Get(llmResponse.f, "confidence")]
  ELSE [user_id |-> JStr("alice"), input_text |-> trimmedInput,
        judgment |-> llmResponse.f.judgment,
        key_factors |-> JArr([i \in 1..Len(llmResponse.f.observations.items) |->
                          Factor(llmResponse.f.observations.items[i].observation,
                                 llmResponse.f.observations.items[i].why)]),
        tradeoffs |-> llmResponse.f.tradeoff,
        uncertainty |-> llmResponse.f.limitations,
        confidence |-> llmResponse.f.confidence]

InsertValues(version, user, trimmedInput, llmResponse) ==
  IF version = "index.ts"
  THEN [user_id |-> JStr(user), input_text |-> trimmedInput,
        judgment |-> Get(llmResponse.f, "judgment"),
        key_factors |-> Get(llmResponse.f, "key_factors"),
        tradeoffs |-> Get(llmResponse.f, "tradeoffs"),
        uncertainty |-> Get(llmResponse.f, "uncertainty"),
        confidence |-> Get(llmResponse.f, "confidence")]
  ELSE [user_id |-> JStr(user), input_text |-> trimmedInput,
        judgment |-> llmResponse.f.judgment,
        key_factors |-> JArr([i \in 1..Len(llmResponse.f.observations.items) |->
                          Factor(llmResponse.f.observations.items[i].observation,
                                 llmResponse.f.observations.items[i].why)]),
        tradeoffs |-> llmResponse.f.tradeoff,
        uncertainty |-> llmResponse.f.limitations,
        confidence |-> llmResponse.f.confidence]

\* schema.sql lines 6-16: the NOT NULL and CHECK constraints of the table
DbAccepts(values) ==
  /\ \A k \in DOMAIN values : k # "input_text" => values[k].t \notin {"undefined", "null"}
  /\ values.confidence.s \in Confidences

StoredRow_truncatesFactors(values, id, clock) ==
  Merge(values, [id |-> ServerId(id), created_at |-> Timestamp(clock),
                 key_factors |-> JArr(Take(values.key_factors.items, 1))])

\* the row as stored: id and created_at are the column defaults
StoredRow(values, id, clock) ==
  Merge(values, [id |-> ServerId(id), created_at |-> Timestamp(clock)])

\* body of the 200 answer after a successful insert
SavedBody(version, savedAnalysis, llmResponse) ==
  IF version = "index.ts" THEN savedAnalysis
  ELSE [id |-> savedAnalysis.id, input_text |-> savedAnalysis.input_text,
        judgment |-> savedAnalysis.judgment,
        observations |-> llmResponse.f.observations,
        tradeoff |-> llmResponse.f.tradeoff,
        limitations |-> llmResponse.f.limitations,
        confidence |-> savedAnalysis.confidence,
        created_at |-> savedAnalysis.created_at]

\* body of the 200 answer when the insert failed
UnsavedBody(llmResponse) ==
  Merge(llmResponse.f,
        [id |-> JNull,
         warning |-> JStr("Analysis generated but could not be saved to history")])

\* index.ts lines 315-317
BackoffMs_offByOne(retries) == BACKOFF_BASE_MS * Pow2(retries)

BackoffMs(retries) == BACKOFF_BASE_MS * Pow2(retries - 1)

(***************************************************************************)
(* analysis.js: what analyzeIngredients does with the settled remote call  *)
(***************************************************************************)
\* A settled call: kind "data" (data, no error), "error" (an error object
\* returned by invoke) or "throw" (invoke rejected).
DataResult(data) ==
  [kind |-> "data", data |-> data, status |-> 0, name |-> "", message |-> NoMsg,
   class |-> "http"]
ErrorResult(class, status, message) ==
  [kind |-> "error", data |-> JNull, status |-> status, name |-> "Error",
   message |-> message, class |-> class]
ThrowResult(class, name, message) ==
  [kind |-> "throw", data |-> JNull, status |-> 0, name |-> name,
   message |-> message, class |-> class]

NoResult == [kind |-> "none", data |-> JNull, status |-> 0, name |-> "",
             message |-> NoMsg, class |-> "none"]

\* lines 78-110: the message of the Error thrown for a returned error
RemapError(status, message) ==
  IF msgIncludes(message, "FunctionsFetchError") THEN E_UNREACHABLE
  ELSE IF msgIncludes(message, "non-2xx") THEN E_SERVICE_ERROR
  ELSE IF msgIncludes(message, "AuthApiError") \/ status = 401 THEN E_SESSION_EXPIRED
  ELSE IF status = 400 THEN OrElse(message, E_INVALID_REQUEST)
  ELSE IF msgIncludes(message, "401") \/ msgIncludes(message, "unauthorized")
  THEN E_SESSION_EXPIRED
  ELSE OrElse(message, E_FAILED)

requiredFields ==
  <<"judgment", "observations", "tradeoff", "limitations", "confidence">>

\* lines 112-132: the message thrown for the payload, NoMsg when it passes
CheckData(data) ==
  IF data.t # "object" THEN E_INVALID_RESPONSE
  ELSE IF \E i \in 1..Len(requiredFields) : requiredFields[i] \notin DOMAIN data.f
  THEN E_INCOMPLETE
  ELSE NoMsg

\* what leaves the try block: a value, or an exception
TryBlock(r) ==
  IF r.kind = "throw"
  THEN [thrown |-> TRUE, name |-> r.name, message |-> r.message]
  ELSE IF r.kind = "error"
  THEN [thrown |-> TRUE, name |-> "Error", message |-> RemapError(r.status, r.message)]
  ELSE IF CheckData(r.data) # NoMsg
  THEN [thrown |-> TRUE, name |-> "Error", message |-> CheckData(r.data)]
  ELSE [thrown |-> FALSE, name |-> "", message |-> NoMsg]

isNetworkish(message) ==
  \/ msgIncludes(message, "Failed to send a request")
  \/ msgIncludes(message, "Failed to fetch")
  \/ msgIncludes(message, "CORS")
  \/ msgIncludes(message, "ERR_FAILED")
  \/ msgIncludes(message, "FunctionsFetchError")

\* lines 142-179: "fallback", or the message of the rejection
CatchBlock_fallbackOnAnyError(err) ==
  IF err.name = "AbortError" THEN [fallback |-> FALSE, message |-> E_TOO_LONG_RUNNING]
  ELSE [fallback |-> TRUE, message |-> NoMsg]

CatchBlock(err) ==
  IF err.name = "AbortError" THEN [fallback |-> FALSE, message |-> E_TOO_LONG_RUNNING]
  ELSE IF isNetworkish(err.message) THEN [fallback |-> TRUE, message |-> NoMsg]
  ELSE IF Truthy(err.message) /\ ~msgIncludes(err.message, "fetch")
  THEN [fallback |-> FALSE, message |-> err.message]
  ELSE [fallback |-> FALSE, message |-> E_UNABLE]

NoValue == [nil |-> JUndef]

Returned(via, value) == [kind |-> "returned", via |-> via, value |-> value, message |-> NoMsg]
Rejected(message) == [kind |-> "rejected", via |-> "none", value |-> NoValue, message |-> message]
NoOutcome == [kind |-> "none", via |-> "none", value |-> NoValue, message |-> NoMsg]

\* the settlement of analyzeIngredients for the settled call r
Settle(r, text) ==
  LET t == TryBlock(r) IN
  IF ~t.thrown THEN Returned("remote", r.data.f)
  ELSE LET c == CatchBlock(t) IN
       IF c.fallback THEN Returned("fallback", buildFallbackAnalysis(text))
       ELSE Rejected(c.message)

\* the entry handed to saveLocalAnalysis
LocalEntry(value, text, user) ==
  Merge(value, [input_text |-> text, user_id |-> JStr(user)])

(***************************************************************************)
(* What the environment can supply                                         *)
(***************************************************************************)
Inputs ==
  { NotAString,
    Text(0, <<"asdf", "qwer">>, FALSE, FALSE, 0, 2),
    Text(1, <<"asdf", "qwer", "zxcv">>, FALSE, FALSE, 0, 1),
    Text(1, <<"water", "sugar", "citric acid", "sodium benzoate", "red 40",
              "natural flavor">>, TRUE, TRUE, 0, 1),
    Text(0, <<"water">>, FALSE, FALSE, MAX_INPUT_LENGTH - 4, 0) }

\* "Failed to fetch" contains "fetch"
CloseToks(T) == IF "Failed to fetch" \in T THEN T \cup {"fetch"} ELSE T

EnvTokSets == {CloseToks(T) : T \in {S \in SUBSET Tokens : Cardinality(S) <= MaxToks}}

\* messages an error of the remote function can carry
EnvMessages == {NoMsg} \cup {Msg("env", T) : T \in EnvTokSets}

\* messages of a failure to reach the service: they carry a connectivity marker
TransportMessages ==
  {Msg("env", CloseToks(T)) :
     T \in {S \in SUBSET NetworkTokens : S # {} /\ Cardinality(S) <= MaxToks}}

\* how the aborted call settles: invoke rejects with the AbortError of the
\* fetch, or reports it as it reports any failed fetch, in the error it
\* returns (lines 78-110 read it there)
AbortResults ==
  {ThrowResult("abort", "AbortError", E_ABORTED),
   ErrorResult("abort", 0, E_ABORTED),
   ErrorResult("abort", 0, Msg("env", {"Failed to send a request"}))}

NoSession == [kind |-> "unknown", user |-> "", valid |-> FALSE]

NoRequest == [method |-> "", auth |-> "", tokenUser |-> "", tokenValid |-> FALSE,
              json |-> FALSE, input_text |-> NotAString]

NoResponse == [status |-> 0, body |-> NoValue]

(***************************************************************************)
(* State                                                                   *)
(***************************************************************************)
VARIABLES
  deployed,        \* which version of the edge function is deployed
  envOK,           \* the edge function has its three environment variables
  hasLocalStorage, \* typeof localStorage !== "undefined"
  quotaFull,       \* localStorage.setItem throws
  localStore,      \* the list stored under LOCAL_HISTORY_KEY
  db,              \* the analyses table, in order of insertion
  nextId,          \* source of fresh identifiers
  clock,           \* source of timestamps
  isOnline, isLoading, analysisResult, history, view, toast,   \* App state
  pc,              \* where the current handleAnalyze call stands
  validation,      \* result of validateInput in the current call
  session,         \* session returned by getSession in the current call
  outcome,         \* settlement of analyzeIngredients in the current call
  result,          \* how the remote call of the current call settled
  invocations,     \* remote calls issued by the current call
  elapsed,         \* milliseconds since the remote call was issued
  timerPending,    \* the 60 s timer is set and not cleared
  aborted,         \* controller.signal.aborted
  delivered,       \* status of the response the current call received, 0 if none
  localAtStart,    \* localStore when the current call started
  req,             \* the request on its way to, or in, the edge function
  srv,             \* where the edge function stands with it
  authUser,        \* user the token resolved to
  trimmedInput, retries, llmCalls, waits, llmResponse,
  resp,            \* the response of the edge function
  inserted,        \* rows inserted for the current request
  deleted,         \* ids whose deletion (single or bulk) returned success
  lastRead,        \* ids returned by the latest read, made after the latest deletion
  probe,           \* latest direct application of a pure function
  signedOut,       \* a SIGNED_OUT event has arrived and nobody has signed in since
  showBarcodeScanner,                        \* App state: the scanner is mounted
  mode, error, productInfo, isScanning,      \* BarcodeScanner state
  codeReaderRef,   \* codeReaderRef.current: a reader, 0 for null
  streamRef,       \* streamRef.current: the stream of this reader, 0 for null
  cameraOn,        \* the readers that hold an open camera stream and decode
  scanPc,          \* where the current startCamera call stands
  stopped          \* handleClose or handleBack has run, startCamera not since

envVars == <<deployed, envOK, hasLocalStorage, quotaFull>>
storeVars == <<localStore, db, nextId, clock>>
appVars == <<isOnline, isLoading, analysisResult, history, view, toast>>
callVars == <<pc, validation, session, outcome, result, invocations,
              elapsed, timerPending, aborted, delivered, localAtStart>>
edgeVars == <<req, srv, authUser, trimmedInput, retries, llmCalls, waits,
              llmResponse, resp, inserted>>
scanVars == <<showBarcodeScanner, mode, error, productInfo, isScanning,
              codeReaderRef, streamRef, cameraOn, scanPc, stopped>>
extVars == <<signedOut, scanVars>>
auxVars == <<deleted, lastRead, probe, extVars>>
vars == <<envVars, storeVars, appVars, callVars, edgeVars, auxVars>>

\* What earlier submissions left behind: for each of the owners, in order, a
\* row inserted by the edge function and a fallback entry in the local cache.
PriorText == Text(0, <<"water", "sugar", "sea salt">>, TRUE, FALSE, 0, 0)

\* the earlier submissions were made by the two users in turn
PriorOwners ==
  {[i \in 1..n |-> IF i % 2 = 1 THEN "alice" ELSE "bob"] : n \in 0..MaxPrior}

PriorRows(version, owners) ==
  [i \in 1..Len(owners) |->
     StoredRow(InsertValues(version, owners[i], PriorText,
                            IF version = "index.ts" THEN GoodV1 ELSE GoodV2),
               2 * i - 1, 2 * i - 1)]

PriorEntries(owners) ==
  [i \in 1..Len(owners) |->
     withId(LocalEntry(buildFallbackAnalysis(PriorText), PriorText,
                       owners[Len(owners) + 1 - i]),
            2 * (Len(owners) + 1 - i), 2 * (Len(owners) + 1 - i))]

NoProbe == [fn |-> "none", arg |-> NotAString, out |-> [nil |-> JUndef]]

NoToast == [type |-> "none", message |-> NoMsg]
Toast(type, message) == [type |-> type, message |-> message]

InitEnv ==
  /\ deployed \in {"index.ts", "schema.sql"}
  /\ envOK \in BOOLEAN
  /\ hasLocalStorage \in BOOLEAN
  /\ quotaFull \in {b \in BOOLEAN : b => hasLocalStorage}

InitIdle ==
  /\ isOnline \in BOOLEAN
  /\ isLoading = FALSE
  /\ analysisResult = NoValue
  /\ history = <<>>
  /\ view = "input"
  /\ toast = NoToast
  /\ pc = "idle"
  /\ validation = validateInput(NotAString)
  /\ session = NoSession
  /\ outcome = NoOutcome
  /\ result = NoResult
  /\ invocations = 0
  /\ elapsed = 0
  /\ timerPending = FALSE
  /\ aborted = FALSE
  /\ delivered = 0
  /\ localAtStart = localStore
  /\ req = NoRequest
  /\ srv = "idle"
  /\ authUser = ""
  /\ trimmedInput = NotAString
  /\ retries = 0
  /\ llmCalls = 0
  /\ waits = <<>>
  /\ llmResponse = JNull
  /\ resp = NoResponse
  /\ inserted = 0
  /\ deleted = {}
  /\ lastRead = {}
  /\ probe = NoProbe
  /\ signedOut = FALSE
  /\ showBarcodeScanner = FALSE
  /\ mode = "select"
  /\ error = ""
  /\ productInfo = "null"
  /\ isScanning = FALSE
  /\ codeReaderRef = 0
  /\ streamRef = 0
  /\ cameraOn = {}
  /\ scanPc = [at |-> "idle", codeReader |-> 0, video |-> FALSE]
  /\ stopped = FALSE

Init ==
  /\ InitEnv
  /\ \E owners \in PriorOwners :
       /\ db = PriorRows(deployed, owners)
       /\ localStore = IF hasLocalStorage THEN PriorEntries(owners) ELSE <<>>
       /\ nextId = 2 * Len(owners) + 1
       /\ clock = 2 * Len(owners) + 1
  /\ InitIdle

(***************************************************************************)
(* App.jsx: online status                                                  *)
(***************************************************************************)
handleOnline ==
  /\ pc = "idle"
  /\ ~isOnline
  /\ isOnline' = TRUE
  /\ toast' = Toast("success", Msg("Connection restored", {}))
  /\ UNCHANGED <<isLoading, analysisResult, history, view>>
  /\ UNCHANGED <<envVars, storeVars, callVars, edgeVars>>
  /\ UNCHANGED auxVars

handleOffline ==
  /\ pc = "idle"
  /\ isOnline
  /\ isOnline' = FALSE
  /\ toast' = Toast("warning", Msg("You are offline. Some features may not work.", {}))
  /\ UNCHANGED <<isLoading, analysisResult, history, view>>
  /\ UNCHANGED <<envVars, storeVars, callVars, edgeVars>>
  /\ UNCHANGED auxVars

(***************************************************************************)
(* App.jsx handleAnalyze / analysis.js analyzeIngredients, up to the first *)
(* await                                                                   *)
(***************************************************************************)
handleAnalyze_noOnlineCheck(ingredients) ==
  /\ pc = "idle"
  /\ IF FALSE
     THEN /\ toast' = Toast("error", Msg("You are offline. Please check your connection.", {}))
          /\ pc' = "done"
          /\ UNCHANGED <<isOnline, isLoading, analysisResult, history, view>>
          /\ UNCHANGED <<validation, session, outcome, result, invocations,
                         elapsed, timerPending, aborted, delivered, localAtStart>>
     ELSE /\ isLoading' = TRUE
          /\ validation' = validateInput(ingredients)
          /\ session' = NoSession
          /\ result' = NoResult
          /\ invocations' = 0
          /\ elapsed' = 0
          /\ timerPending' = FALSE
          /\ aborted' = FALSE
          /\ delivered' = 0
          /\ localAtStart' = localStore
          /\ IF validation'.valid
             THEN pc' = "session" /\ outcome' = NoOutcome
             ELSE pc' = "settled" /\ outcome' = Rejected(validation'.error)
          /\ UNCHANGED <<isOnline, analysisResult, history, view, toast>>
  /\ UNCHANGED <<envVars, storeVars, edgeVars>>
  /\ UNCHANGED auxVars

handleAnalyze(ingredients) ==
  /\ pc = "idle"
  /\ IF ~isOnline
     THEN /\ toast' = Toast("error", Msg("You are offline. Please check your connection.", {}))
          /\ pc' = "done"
          /\ UNCHANGED <<isOnline, isLoading, analysisResult, history, view>>
          /\ UNCHANGED <<validation, session, outcome, result, invocations,
                         elapsed, timerPending, aborted, delivered, localAtStart>>
     ELSE /\ isLoading' = TRUE
          /\ validation' = validateInput(ingredients)
          /\ session' = NoSession
          /\ result' = NoResult
          /\ invocations' = 0
          /\ elapsed' = 0
          /\ timerPending' = FALSE
          /\ aborted' = FALSE
          /\ delivered' = 0
          /\ localAtStart' = localStore
          /\ IF validation'.valid
             THEN pc' = "session" /\ outcome' = NoOutcome
             ELSE pc' = "settled" /\ outcome' = Rejected(validation'.error)
          /\ UNCHANGED <<isOnline, analysisResult, history, view, toast>>
  /\ UNCHANGED <<envVars, storeVars, edgeVars>>
  /\ UNCHANGED auxVars

SessionGuard_noSessionCheck(kind) ==
  IF kind = "error" THEN E_SESSION_ERROR ELSE NoMsg

\* analysis.js lines 52-61: the message to reject with, NoMsg to go on
SessionGuard(kind) ==
  IF kind = "error" THEN E_SESSION_ERROR
  ELSE IF kind = "none" THEN E_MUST_SIGN_IN
  ELSE NoMsg

\* analysis.js lines 46-74: getSession has settled; the remote call is issued
getSessionReturns(kind, user, tokenValid) ==
  /\ pc = "session"
  /\ session' = [kind |-> kind, user |-> user, valid |-> tokenValid]
  /\ IF SessionGuard(kind) # NoMsg
     THEN /\ outcome' = Rejected(SessionGuard(kind))
          /\ pc' = "settled"
          /\ UNCHANGED <<invocations, timerPending, req>>
     ELSE /\ srv = "idle" /\ req = NoRequest
          /\ timerPending' = TRUE
          /\ invocations' = invocations + 1
          /\ req' = [method |-> "POST", auth |-> "bearer", tokenUser |-> user,
                     tokenValid |-> tokenValid, json |-> TRUE,
                     input_text |-> validation.text]
          /\ pc' = "invoke"
          /\ UNCHANGED outcome
  /\ UNCHANGED <<validation, result, elapsed, aborted, delivered, localAtStart>>
  /\ UNCHANGED <<srv, authUser, trimmedInput, retries, llmCalls, waits,
                 llmResponse, resp, inserted>>
  /\ UNCHANGED <<envVars, storeVars, appVars>>
  /\ UNCHANGED auxVars

clearTimeoutId_notInCatch(r, pending) == IF r.kind = "throw" THEN pending ELSE FALSE

\* analysis.js line 76 (invoke has resolved) and line 143 (invoke has thrown):
\* clearTimeout(timeoutId); whether the timer is still pending afterwards
clearTimeoutId(r, pending) == IF r.kind = "throw" THEN FALSE ELSE FALSE

(***************************************************************************)
(* analysis.js lines 76-179: the remote call has settled with r            *)
(***************************************************************************)
Min(a, b) == IF a <= b THEN a ELSE b

Settles_reissuesOnFailure(r) ==
  LET o == Settle(r, validation.text) IN
  /\ result' = r
  /\ timerPending' = clearTimeoutId(r, timerPending)
  /\ IF r.kind = "data"
     THEN pc' = "settled" /\ outcome' = o
     ELSE pc' = "session" /\ outcome' = NoOutcome
  /\ IF r.kind = "data" /\ o.kind = "returned"
     THEN /\ localStore' = saveLocalAnalysis(hasLocalStorage, ~quotaFull, localStore,
                              LocalEntry(o.value, validation.text, session.user),
                              nextId, clock)
          /\ nextId' = nextId + 1
          /\ clock' = clock + 1
     ELSE UNCHANGED <<localStore, nextId, clock>>
  /\ UNCHANGED <<validation, session, invocations, elapsed, localAtStart>>
  /\ UNCHANGED <<envVars, appVars>>

Settles(r) ==
  LET o == Settle(r, validation.text) IN
  /\ result' = r
  /\ outcome' = o
  /\ timerPending' = clearTimeoutId(r, timerPending)
  /\ pc' = "settled"
  /\ IF o.kind = "returned"
     THEN /\ localStore' = saveLocalAnalysis(hasLocalStorage, ~quotaFull, localStore,
                              LocalEntry(o.value, validation.text, session.user),
                              nextId, clock)
          /\ nextId' = nextId + 1
          /\ clock' = clock + 1
     ELSE UNCHANGED <<localStore, nextId, clock>>
  /\ UNCHANGED <<validation, session, invocations, elapsed, localAtStart>>
  /\ UNCHANGED <<envVars, appVars>>

\* time passes while the call is in flight
Tick ==
  /\ pc = "invoke"
  /\ timerPending
  /\ elapsed < TIMEOUT_MS
  /\ elapsed' = Min(elapsed + (TIMEOUT_MS \div TickParts), TIMEOUT_MS)
  /\ UNCHANGED <<pc, validation, session, outcome, result, invocations,
                 timerPending, aborted, delivered, localAtStart>>
  /\ UNCHANGED <<envVars, storeVars, appVars, edgeVars>>
  /\ UNCHANGED auxVars

\* line 65: the timer fires and the call is aborted
TimerFires ==
  /\ pc = "invoke"
  /\ timerPending
  /\ elapsed >= TIMEOUT_MS
  /\ aborted' = TRUE
  /\ \E r \in AbortResults : Settles(r)
  /\ UNCHANGED <<db, delivered>>
  /\ UNCHANGED edgeVars
  /\ UNCHANGED auxVars

\* the response of the edge function reaches the client
NetDeliver ==
  /\ pc = "invoke"
  /\ srv = "done"
  /\ delivered' = resp.status
  /\ IF resp.status = 200
     THEN Settles(DataResult(Obj(resp.body)))
     ELSE \E status \in {resp.status, 0}, m \in EnvMessages :
            Settles(ErrorResult("http", status, m))
  /\ srv' = "idle"
  /\ req' = NoRequest
  /\ UNCHANGED <<db, aborted>>
  /\ UNCHANGED <<authUser, trimmedInput, retries, llmCalls, waits, llmResponse, resp, inserted>>
  /\ UNCHANGED auxVars

\* the service cannot be reached (the request never arrives), or its answer
\* is lost on the way back
NetFail ==
  /\ pc = "invoke"
  /\ srv \in {"idle", "done"}
  /\ \E m \in TransportMessages, thrown \in BOOLEAN :
       Settles(IF thrown THEN ThrowResult("transport", "TypeError", m)
               ELSE ErrorResult("transport", 0, m))
  /\ srv' = "idle"
  /\ req' = NoRequest
  /\ UNCHANGED <<db, aborted, delivered>>
  /\ UNCHANGED <<authUser, trimmedInput, retries, llmCalls, waits,
                 llmResponse, resp, inserted>>
  /\ UNCHANGED auxVars

(***************************************************************************)
(* The edge function                                                       *)
(***************************************************************************)
Respond(status, body) ==
  /\ resp' = [status |-> status, body |-> body]
  /\ srv' = "done"

ErrorBody(text) == [error |-> JStr(text)]

\* index.ts lines 169-221: up to the call of auth.getUser
EdgeStart_noMethodCheck ==
  /\ srv = "idle"
  /\ req # NoRequest
  /\ retries' = 0 /\ llmCalls' = 0 /\ waits' = <<>>
  /\ llmResponse' = JNull /\ inserted' = 0 /\ authUser' = ""
  /\ trimmedInput' = NotAString
  /\ IF req.method = "OPTIONS" THEN Respond(200, NoValue)
     ELSE IF ~envOK THEN Respond(500, ErrorBody("Server configuration error"))
     ELSE IF req.auth # "bearer"
     THEN Respond(401, ErrorBody("Missing or invalid authorization header"))
     ELSE IF req.tokenUser = "" THEN Respond(401, ErrorBody("Invalid token format"))
     ELSE srv' = "auth" /\ resp' = NoResponse
  /\ UNCHANGED req
  /\ UNCHANGED <<envVars, storeVars, appVars, callVars>>
  /\ UNCHANGED auxVars

EdgeStart ==
  /\ srv = "idle"
  /\ req # NoRequest
  /\ retries' = 0 /\ llmCalls' = 0 /\ waits' = <<>>
  /\ llmResponse' = JNull /\ inserted' = 0 /\ authUser' = ""
  /\ trimmedInput' = NotAString
  /\ IF req.method = "OPTIONS" THEN Respond(200, NoValue)
     ELSE IF req.method # "POST" THEN Respond(405, ErrorBody("Method not allowed"))
     ELSE IF ~envOK THEN Respond(500, ErrorBody("Server configuration error"))
     ELSE IF req.auth # "bearer"
     THEN Respond(401, ErrorBody("Missing or invalid authorization header"))
     ELSE IF req.tokenUser = "" THEN Respond(401, ErrorBody("Invalid token format"))
     ELSE srv' = "auth" /\ resp' = NoResponse
  /\ UNCHANGED req
  /\ UNCHANGED <<envVars, storeVars, appVars, callVars>>
  /\ UNCHANGED auxVars

checkInputText_noTrim(input_text) ==
  IF ~input_text.str \/ Length(input_text) = 0
  THEN [status |-> 400, error |-> "input_text is required and must be a string",
        trimmedInput |-> NotAString]
  ELSE IF Length(input_text) < MIN_INPUT_LENGTH
  THEN [status |-> 400, error |-> "Input must be at least 10 characters",
        trimmedInput |-> NotAString]
  ELSE IF Length(input_text) > MAX_INPUT_LENGTH
  THEN [status |-> 400, error |-> "Input must not exceed 5000 characters",
        trimmedInput |-> NotAString]
  ELSE [status |-> 0, error |-> "", trimmedInput |-> trim(input_text)]

\* lines 248-286: the checks of input_text; status 0 stands for going on
checkInputText(input_text) ==
  IF ~input_text.str \/ Length(input_text) = 0
  THEN [status |-> 400, error |-> "input_text is required and must be a string",
        trimmedInput |-> NotAString]
  ELSE IF Length(trim(input_text)) < MIN_INPUT_LENGTH
  THEN [status |-> 400, error |-> "Input must be at least 10 characters",
        trimmedInput |-> NotAString]
  ELSE IF Length(trim(input_text)) > MAX_INPUT_LENGTH
  THEN [status |-> 400, error |-> "Input must not exceed 5000 characters",
        trimmedInput |-> NotAString]
  ELSE [status |-> 0, error |-> "", trimmedInput |-> trim(input_text)]

\* lines 223-286: getUser has settled; the body is parsed (req.json() can
\* throw) and checked
EdgeAuthReturns ==
  /\ srv = "auth"
  /\ \E parsed \in BOOLEAN :
       IF ~req.tokenValid
       THEN Respond(401, ErrorBody("Session expired. Please sign in again."))
            /\ UNCHANGED <<authUser, trimmedInput>>
       ELSE /\ authUser' = req.tokenUser
            /\ IF ~req.json \/ ~parsed
               THEN Respond(400, ErrorBody("Invalid JSON in request body"))
                    /\ UNCHANGED trimmedInput
               ELSE IF checkInputText(req.input_text).status = 400
               THEN Respond(400, ErrorBody(checkInputText(req.input_text).error))
                    /\ UNCHANGED trimmedInput
               ELSE /\ trimmedInput' = checkInputText(req.input_text).trimmedInput
                    /\ srv' = "llm"
                    /\ UNCHANGED resp
  /\ UNCHANGED <<req, retries, llmCalls, waits, llmResponse, inserted>>
  /\ UNCHANGED <<envVars, storeVars, appVars, callVars>>
  /\ UNCHANGED auxVars

\* lines 294-319: one pass of the retry loop
EdgeCallLLM ==
  /\ srv = "llm"
  /\ retries <= MAX_RETRIES
  /\ \E i \in 1..Len(LLMOutcomes) :
       LET r == callLLM(deployed, LLMOutcomes[i]) IN
       /\ llmCalls' = llmCalls + 1
       /\ IF r.ok
          THEN /\ llmResponse' = r.value
               /\ srv' = "insert"
               /\ UNCHANGED <<retries, waits, resp>>
          ELSE /\ retries' = retries + 1
               /\ UNCHANGED llmResponse
               /\ IF retries' > MAX_RETRIES
                  THEN /\ Respond(503, ErrorBody("Analysis service temporarily unavailable. Please try again."))
                       /\ UNCHANGED waits
                  ELSE /\ waits' = Append(waits, BackoffMs(retries'))
                       /\ srv' = "backoff"
                       /\ UNCHANGED resp
  /\ UNCHANGED <<req, authUser, trimmedInput, inserted>>
  /\ UNCHANGED <<envVars, storeVars, appVars, callVars>>
  /\ UNCHANGED auxVars

\* lines 315-317: the backoff timer has run out
EdgeBackoffDone ==
  /\ srv = "backoff"
  /\ srv' = "llm"
  /\ UNCHANGED <<req, authUser, trimmedInput, retries, llmCalls, waits, llmResponse, resp, inserted>>
  /\ UNCHANGED <<envVars, storeVars, appVars, callVars>>
  /\ UNCHANGED auxVars

EdgeInsert_insertsTwice ==
  /\ srv = "insert"
  /\ \E dbOk \in BOOLEAN :
       LET values == InsertValues(deployed, authUser, trimmedInput, llmResponse)
           savedAnalysis == StoredRow(values, nextId, clock)
       IN IF dbOk /\ DbAccepts(values)
          THEN /\ db' = Append(Append(db, savedAnalysis), savedAnalysis)
               /\ nextId' = nextId + 1
               /\ clock' = clock + 1
               /\ inserted' = inserted + 2
               /\ Respond(200, SavedBody(deployed, savedAnalysis, llmResponse))
          ELSE /\ Respond(200, UnsavedBody(llmResponse))
               /\ UNCHANGED <<db, nextId, clock, inserted>>
  /\ UNCHANGED localStore
  /\ UNCHANGED <<req, authUser, trimmedInput, retries, llmCalls, waits, llmResponse>>
  /\ UNCHANGED <<envVars, appVars, callVars>>
  /\ UNCHANGED auxVars

\* lines 321-356: the insert and the answer
EdgeInsert ==
  /\ srv = "insert"
  /\ \E dbOk \in BOOLEAN :
       LET values == InsertValues(deployed, authUser, trimmedInput, llmResponse)
           savedAnalysis == StoredRow(values, nextId, clock)
       IN IF dbOk /\ DbAccepts(values)
          THEN /\ db' = Append(db, savedAnalysis)
               /\ nextId' = nextId + 1
               /\ clock' = clock + 1
               /\ inserted' = inserted + 1
               /\ Respond(200, SavedBody(deployed, savedAnalysis, llmResponse))
          ELSE /\ Respond(200, UnsavedBody(llmResponse))
               /\ UNCHANGED <<db, nextId, clock, inserted>>
  /\ UNCHANGED localStore
  /\ UNCHANGED <<req, authUser, trimmedInput, retries, llmCalls, waits, llmResponse>>
  /\ UNCHANGED <<envVars, appVars, callVars>>
  /\ UNCHANGED auxVars

\* a request or an answer nobody waits for any more is dropped
EdgeDrop ==
  /\ pc # "invoke"
  /\ req # NoRequest
  /\ srv \in {"idle", "done"}
  /\ srv' = "idle"
  /\ req' = NoRequest
  /\ UNCHANGED <<authUser, trimmedInput, retries, llmCalls, waits, llmResponse, resp, inserted>>
  /\ UNCHANGED <<envVars, storeVars, appVars, callVars>>
  /\ UNCHANGED auxVars

(***************************************************************************)
(* history.js getHistory and App.jsx loadHistory                           *)
(***************************************************************************)
HistoryColumns ==
  {"id", "input_text", "judgment", "key_factors", "tradeoffs", "uncertainty",
   "confidence", "created_at"}

Project(row, cols) == [k \in (DOMAIN row) \cap cols |-> row[k]]

RECURSIVE Reverse(_)
Reverse(s) == IF s = <<>> THEN <<>> ELSE Append(Reverse(Tail(s)), Head(s))

RECURSIVE VisibleTo(_, _)
VisibleTo(user, rows) ==
  IF rows = <<>> THEN <<>>
  ELSE IF Head(rows).user_id = JStr(user)
       THEN <<Head(rows)>> \o VisibleTo(user, Tail(rows))
       ELSE VisibleTo(user, Tail(rows))

\* the rows the select returns: own rows, newest first, at most limit
SelectHistory(user, rows, limit) ==
  LET own == Take(Reverse(VisibleTo(user, rows)), limit)
  IN [i \in 1..Len(own) |-> Project(own[i], HistoryColumns)]

getHistory(kind, user, rows, hasStorage, store) ==
  CASE kind = "ok" ->
         [data |-> SelectHistory(user, rows, MAX_HISTORY_ITEMS), error |-> NoMsg]
    [] kind = "jwt" ->
         [data |-> <<>>, error |-> E_SESSION_EXPIRED]
    [] kind = "missing_table" ->
         [data |-> readLocalHistory(hasStorage, store),
          error |-> Msg("Using local history (missing table).", {})]
    [] kind = "throw" ->
         [data |-> readLocalHistory(hasStorage, store),
          error |-> Msg("Using local history (offline).", {})]
    [] OTHER ->
         [data |-> <<>>, error |-> Msg("env", {})]

\* App.jsx lines 118-143: the list loadHistory puts into the history state
loadHistory(r) ==
  IF Truthy(r.error) /\ Len(r.data) = 0 THEN <<>> ELSE r.data

handleAnalyzeResumes_noFinally ==
  /\ pc = "settled"
  /\ IF outcome.kind = "returned"
     THEN /\ analysisResult' = outcome.value
          /\ pc' = "history"
          /\ UNCHANGED <<isLoading, toast>>
     ELSE /\ toast' = Toast("error", OrElse(outcome.message,
                                  Msg("Analysis failed. Please try again.", {})))
          /\ pc' = "done"
          /\ UNCHANGED <<isLoading, analysisResult>>
  /\ UNCHANGED <<isOnline, history, view>>
  /\ UNCHANGED <<validation, session, outcome, result, invocations, elapsed,
                 timerPending, aborted, delivered, localAtStart>>
  /\ UNCHANGED <<envVars, storeVars, edgeVars>>
  /\ UNCHANGED auxVars

\* App.jsx lines 220-230: analyzeIngredients has settled
handleAnalyzeResumes ==
  /\ pc = "settled"
  /\ IF outcome.kind = "returned"
     THEN /\ analysisResult' = outcome.value
          /\ pc' = "history"
          /\ UNCHANGED <<isLoading, toast>>
     ELSE /\ toast' = Toast("error", OrElse(outcome.message,
                                  Msg("Analysis failed. Please try again.", {})))
          /\ isLoading' = FALSE
          /\ pc' = "done"
          /\ UNCHANGED analysisResult
  /\ UNCHANGED <<isOnline, history, view>>
  /\ UNCHANGED <<validation, session, outcome, result, invocations, elapsed,
                 timerPending, aborted, delivered, localAtStart>>
  /\ UNCHANGED <<envVars, storeVars, edgeVars>>
  /\ UNCHANGED auxVars

\* App.jsx lines 222-230: getHistory has settled
getHistoryReturns(kind) ==
  /\ pc = "history"
  /\ history' = loadHistory(getHistory(kind, session.user, db, hasLocalStorage, localStore))
  /\ view' = "result"
  /\ toast' = Toast("success", Msg("Analysis complete!", {}))
  /\ isLoading' = FALSE
  /\ pc' = "done"
  /\ UNCHANGED <<isOnline, analysisResult>>
  /\ UNCHANGED <<validation, session, outcome, result, invocations, elapsed,
                 timerPending, aborted, delivered, localAtStart>>
  /\ UNCHANGED <<envVars, storeVars, edgeVars>>
  /\ UNCHANGED auxVars

(***************************************************************************)
(* Specification                                                           *)
(***************************************************************************)
Next ==
  \/ handleOnline
  \/ handleOffline
  \/ \E ingredients \in Inputs : handleAnalyze(ingredients)
  \/ \E kind \in {"error", "none"} : getSessionReturns(kind, "", FALSE)
  \/ \E user \in Users, tokenValid \in BOOLEAN :
       getSessionReturns("session", user, tokenValid)
  \/ Tick
  \/ TimerFires
  \/ NetDeliver
  \/ NetFail
  \/ EdgeStart
  \/ EdgeAuthReturns
  \/ EdgeCallLLM
  \/ EdgeBackoffDone
  \/ EdgeInsert
  \/ EdgeDrop
  \/ handleAnalyzeResumes
  \/ \E kind \in {"ok", "jwt", "missing_table", "throw", "other"} :
       getHistoryReturns(kind)

Spec == Init /\ [][Next]_vars

\* the same system on a device whose localStorage exists and accepts writes
InitStorageOK == Init /\ hasLocalStorage /\ ~quotaFull

SpecStorageOK == InitStorageOK /\ [][Next]_vars

\* Every await of a submission settles: the steps that follow handleAnalyze
\* are taken once they can be (the event loop runs a ready continuation,
\* and the 60 s timer of analysis.js line 65 fires).
Progress ==
  \/ \E kind \in {"error", "none"} : getSessionReturns(kind, "", FALSE)
  \/ \E user \in Users, tokenValid \in BOOLEAN :
       getSessionReturns("session", user, tokenValid)
  \/ Tick
  \/ TimerFires
  \/ NetDeliver
  \/ NetFail
  \/ EdgeStart
  \/ EdgeAuthReturns
  \/ EdgeCallLLM
  \/ EdgeBackoffDone
  \/ EdgeInsert
  \/ EdgeDrop
  \/ handleAnalyzeResumes
  \/ \E kind \in {"ok", "jwt", "missing_table", "throw", "other"} :
       getHistoryReturns(kind)

\* the table and the cache start empty: what earlier submissions left
\* behind has no part in how a submission ends; the cache can be written
\* or is full
InitLive == Init /\ db = <<>> /\ hasLocalStorage

SpecLive == InitLive /\ [][Next]_vars /\ WF_vars(Progress)


(***************************************************************************)
(* The pure functions of analysis.js applied to texts around their         *)
(* boundaries                                                              *)
(***************************************************************************)
MaxPad == 1

ProbeLengths == {0, 1, MIN_INPUT_LENGTH - 1, MIN_INPUT_LENGTH, MIN_INPUT_LENGTH + 1,
                 MAX_INPUT_LENGTH - 1, MAX_INPUT_LENGTH, MAX_INPUT_LENGTH + 1}

ProbeWords ==
  { <<>>, <<"water">>, <<"corn syrup">>, <<"water", "sugar">>,
    <<"asdf", "qwer", "zxcv">>, <<"water", "asdf", "qwer">>,
    <<"water", "sugar", "citric acid", "sodium benzoate", "red 40",
      "natural flavor">>,
    <<"sugar", "sodium benzoate", "soy lecithin", "red 40">>,
    <<"sugar", "corn syrup", "sodium benzoate", "soy lecithin", "red 40",
      "natural flavor", "sea salt">>,
    <<"sodium benzoate", "red 40">>,
    <<"water", "asdf", "qwer", "zxcv", "water", "asdf">>,
    [i \in 1..16 |-> "water"] }

\* the text made of the words and as many filler characters as it takes to
\* give its body the length len
TextOfLength(lead, words, comma, upper, len, trail) ==
  LET base == BodyLength(Text(0, words, comma, upper, 0, 0))
  IN Text(lead, words, comma, upper, IF len > base THEN len - base ELSE 0, trail)

ProbeTexts ==
  {NotAString} \cup
  {TextOfLength(lead, words, comma, upper, len, trail) :
     lead \in 0..MaxPad, trail \in 0..MaxPad, words \in ProbeWords,
     comma \in BOOLEAN, upper \in BOOLEAN, len \in ProbeLengths}

applyValidateInput(x) ==
  /\ probe = NoProbe
  /\ probe' = [fn |-> "validateInput", arg |-> x, out |-> validateInput(x)]
  /\ UNCHANGED <<deleted, lastRead, extVars>>
  /\ UNCHANGED <<envVars, storeVars, appVars, callVars, edgeVars>>

\* buildFallbackAnalysis receives validation.text (analysis.js line 161)
applyBuildFallbackAnalysis(x) ==
  /\ probe = NoProbe
  /\ validateInput(x).valid
  /\ probe' = [fn |-> "buildFallbackAnalysis", arg |-> validateInput(x).text,
               out |-> buildFallbackAnalysis(validateInput(x).text)]
  /\ UNCHANGED <<deleted, lastRead, extVars>>
  /\ UNCHANGED <<envVars, storeVars, appVars, callVars, edgeVars>>

\* index.ts lines 248-286 on the input_text of a request, and lines 322-334
\* on the text that passed
applyCheckInputText(x) ==
  /\ probe = NoProbe
  /\ probe' = [fn |-> "checkInputText", arg |-> x,
               out |-> [check |-> checkInputText(x),
                        stored |-> IF checkInputText(x).status = 400 THEN NotAString
                                   ELSE StoredRow(InsertValues("index.ts", "alice",
                                                    checkInputText(x).trimmedInput,
                                                    GoodV1), 1, 1).input_text]]
  /\ UNCHANGED <<deleted, lastRead, extVars>>
  /\ UNCHANGED <<envVars, storeVars, appVars, callVars, edgeVars>>

InitPure ==
  /\ Init
  /\ deployed = "schema.sql" /\ envOK /\ hasLocalStorage /\ ~quotaFull
  /\ isOnline /\ db = <<>>

NextPure ==
  \/ \E x \in ProbeTexts : applyValidateInput(x)
  \/ \E x \in ProbeTexts : applyBuildFallbackAnalysis(x)
  \/ \E x \in ProbeTexts : applyCheckInputText(x)

SpecPure == InitPure /\ [][NextPure]_vars


(***************************************************************************)
(* The edge function on its own: requests of any caller                    *)
(***************************************************************************)
MaxRows == 2

\* requests as they can arrive: a request without the header carries no
\* token, and only a token that is there can resolve to a user
EdgeRequests ==
  {r \in [method : {"POST", "OPTIONS", "GET"}, auth : {"bearer", "none"},
          tokenUser : Users \cup {""}, tokenValid : BOOLEAN, json : BOOLEAN,
          input_text : Inputs] :
     /\ r.auth = "none" => r.tokenUser = ""
     /\ r.tokenValid => r.tokenUser # ""
     /\ ~r.json => r.input_text = NotAString}

\* index.ts line 169: serve is entered with the request; its locals are fresh
receiveRequest(r) ==
  /\ pc = "idle"
  /\ srv = "idle"
  /\ req = NoRequest
  /\ Len(db) < MaxRows
  /\ req' = r
  /\ authUser' = "" /\ trimmedInput' = NotAString
  /\ retries' = 0 /\ llmCalls' = 0 /\ waits' = <<>>
  /\ llmResponse' = JNull /\ resp' = NoResponse /\ inserted' = 0
  /\ UNCHANGED srv
  /\ UNCHANGED <<envVars, storeVars, appVars, callVars, auxVars>>

InitEdge == Init /\ isOnline /\ hasLocalStorage /\ ~quotaFull

NextEdge ==
  \/ \E r \in EdgeRequests : receiveRequest(r)
  \/ EdgeStart
  \/ EdgeAuthReturns
  \/ EdgeCallLLM
  \/ EdgeBackoffDone
  \/ EdgeInsert
  \/ EdgeDrop

SpecEdge == InitEdge /\ [][NextEdge]_vars

(***************************************************************************)
(* The local cache on its own: saveLocalAnalysis called again and again    *)
(***************************************************************************)
MaxSaves == 2

\* the cache starts empty, one short of full, or full
LocalStartLengths == {0, MAX_HISTORY_ITEMS - 1, MAX_HISTORY_ITEMS}

AlternatingOwners(n) == [i \in 1..n |-> IF i % 2 = 1 THEN "alice" ELSE "bob"]

\* analysis.js lines 135-139 and 171-175: what the callers hand over is the
\* body of a 200 answer (saved or not) or the local fallback analysis, with
\* the input text and the user added
SaveCandidates(id, now) ==
  UNION {{LocalEntry(buildFallbackAnalysis(PriorText), PriorText, u),
          LocalEntry(SavedBody("schema.sql",
                               StoredRow(InsertValues("schema.sql", u, PriorText, GoodV2),
                                         id, now),
                               GoodV2),
                     PriorText, u),
          LocalEntry(UnsavedBody(GoodV2), PriorText, u)} : u \in Users}

\* part_000 lines 35-44
saveLocalAnalysisCalled(entry) ==
  /\ pc = "idle"
  /\ nextId - (2 * Len(localAtStart) + 1) < MaxSaves
  /\ localStore' = saveLocalAnalysis(hasLocalStorage, ~quotaFull, localStore,
                                     entry, nextId, clock)
  /\ nextId' = nextId + 1
  /\ clock' = clock + 1
  /\ probe' = [fn |-> "saveLocalAnalysis", arg |-> entry, out |-> [nil |-> JUndef]]
  /\ UNCHANGED db
  /\ UNCHANGED <<envVars, appVars, callVars, edgeVars, deleted, lastRead, extVars>>

InitLocal ==
  /\ InitEnv
  /\ \E n \in LocalStartLengths :
       /\ db = <<>>
       /\ localStore = IF hasLocalStorage THEN PriorEntries(AlternatingOwners(n))
                       ELSE <<>>
       /\ nextId = 2 * Len(localStore) + 1
       /\ clock = 2 * Len(localStore) + 1
  /\ InitIdle

NextLocal == \E entry \in SaveCandidates(nextId, clock) : saveLocalAnalysisCalled(entry)

SpecLocal == InitLocal /\ [][NextLocal]_vars

(***************************************************************************)
(* The history service: reads and deletions of a signed-in user            *)
(***************************************************************************)
MaxStored == 2

\* analysis.js lines 135-139: the copy of a saved analysis in the local cache
LocalCopy(version, row) ==
  LocalEntry(SavedBody(version, row, IF version = "index.ts" THEN GoodV1 ELSE GoodV2),
             row.input_text, row.user_id.s)

\* the local cache after the rows were saved one after the other
LocalCopies(version, rows) ==
  [i \in 1..Len(rows) |-> LocalCopy(version, rows[Len(rows) + 1 - i])]

IdsOf(items) == {items[i].id : i \in 1..Len(items)}

\* schema.sql lines 39-43: a delete removes the matching rows of the caller
DeleteWhere(user, rows, col, val) ==
  LET Kept(r) == ~(r.user_id = JStr(user) /\ r[col] = val)
  IN SelectSeq(rows, Kept)

\* part_000 lines 85-115: the local cache after deleteAnalysis(id); the
\* remote delete answered with kind
deleteAnalysis(kind, id, hasStorage, writeOk, store) ==
  LET Kept(item) == item.id # id IN
  IF ~IsTruthy(id) THEN [success |-> FALSE, store |-> store]
  ELSE CASE kind = "ok" -> [success |-> TRUE, store |-> store]
         [] kind = "fetch" ->
              [success |-> FALSE,
               store |-> writeLocalHistory(hasStorage, writeOk, store,
                           SelectSeq(readLocalHistory(hasStorage, store), Kept))]
         [] OTHER -> [success |-> FALSE, store |-> store]

\* part_000 lines 148-184: the local cache after clearHistory()
clearHistory(kind, hasStorage, writeOk, store) ==
  CASE kind = "ok" -> [success |-> TRUE, store |-> store]
    [] kind = "fetch" ->
         [success |-> FALSE,
          store |-> writeLocalHistory(hasStorage, writeOk, store, <<>>)]
    [] OTHER -> [success |-> FALSE, store |-> store]

\* part_000 lines 120-143: the record getAnalysisById(id) returns, or null
getAnalysisById(kind, user, rows, hasStorage, store, id) ==
  LET Hit(r) == r.id = id
      found == SelectSeq(VisibleTo(user, rows), Hit)
      local == SelectSeq(readLocalHistory(hasStorage, store), Hit)
  IN IF ~IsTruthy(id) THEN JNull
     ELSE CASE kind = "ok" -> IF Len(found) = 1 THEN found[1] ELSE JNull
            [] kind = "throw" -> IF Len(local) > 0 THEN local[1] ELSE JNull
            [] OTHER -> JNull

\* a user signs in on the device
signIn(user) ==
  /\ pc = "idle"
  /\ session.kind = "unknown"
  /\ session' = [kind |-> "session", user |-> user, valid |-> TRUE]
  /\ UNCHANGED <<pc, validation, outcome, result, invocations, elapsed,
                 timerPending, aborted, delivered, localAtStart>>
  /\ UNCHANGED <<envVars, storeVars, appVars, edgeVars, auxVars>>

deleteAnalysisCalled(id, kind) ==
  LET r == deleteAnalysis(kind, id, hasLocalStorage, ~quotaFull, localStore) IN
  /\ pc = "idle"
  /\ session.kind = "session"
  /\ localStore' = r.store
  /\ db' = IF kind = "ok" THEN DeleteWhere(session.user, db, "id", id) ELSE db
  /\ deleted' = IF r.success THEN deleted \cup {id} ELSE deleted
  /\ lastRead' = {}
  /\ UNCHANGED <<nextId, clock, probe, extVars>>
  /\ UNCHANGED <<envVars, appVars, callVars, edgeVars>>

clearHistoryCalled(kind) ==
  LET r == clearHistory(kind, hasLocalStorage, ~quotaFull, localStore) IN
  /\ pc = "idle"
  /\ session.kind = "session"
  /\ localStore' = r.store
  /\ db' = IF kind = "ok"
           THEN DeleteWhere(session.user, db, "user_id", JStr(session.user))
           ELSE db
  /\ deleted' = IF r.success
                THEN deleted \cup IdsOf(VisibleTo(session.user, db))
                ELSE deleted
  /\ lastRead' = {}
  /\ UNCHANGED <<nextId, clock, probe, extVars>>
  /\ UNCHANGED <<envVars, appVars, callVars, edgeVars>>

getHistoryCalled(kind) ==
  /\ pc = "idle"
  /\ session.kind = "session"
  /\ lastRead' = IdsOf(getHistory(kind, session.user, db, hasLocalStorage,
                                  localStore).data)
  /\ UNCHANGED <<deleted, probe, extVars>>
  /\ UNCHANGED <<envVars, storeVars, appVars, callVars, edgeVars>>

getAnalysisByIdCalled(id, kind) ==
  LET r == getAnalysisById(kind, session.user, db, hasLocalStorage, localStore, id) IN
  /\ pc = "idle"
  /\ session.kind = "session"
  /\ lastRead' = IF r = JNull THEN {} ELSE {r.id}
  /\ UNCHANGED <<deleted, probe, extVars>>
  /\ UNCHANGED <<envVars, storeVars, appVars, callVars, edgeVars>>

\* the ids the user can name: those of the rows, of the cache, and of
\* records deleted earlier
KnownIds == IdsOf(db) \cup IdsOf(localStore) \cup deleted

InitHistory ==
  /\ InitEnv
  /\ envOK
  /\ \E n \in 1..MaxStored :
       /\ db = PriorRows(deployed, AlternatingOwners(n))
       /\ localStore = IF hasLocalStorage THEN LocalCopies(deployed, db) ELSE <<>>
       /\ nextId = 2 * n + 1
       /\ clock = 2 * n + 1
  /\ InitIdle
  /\ isOnline

NextHistory ==
  \/ \E user \in Users : signIn(user)
  \/ \E id \in KnownIds, kind \in {"ok", "denied", "error", "fetch"} :
       deleteAnalysisCalled(id, kind)
  \/ \E kind \in {"ok", "nouser", "denied", "error", "fetch"} :
       clearHistoryCalled(kind)
  \/ \E kind \in {"ok", "jwt", "missing_table", "throw", "other"} :
       getHistoryCalled(kind)
  \/ \E id \in KnownIds, kind \in {"ok", "error", "throw"} :
       getAnalysisByIdCalled(id, kind)

SpecHistory == InitHistory /\ [][NextHistory]_vars

(***************************************************************************)
(* The App with the auth listener: a sign-out can arrive at any moment     *)
(***************************************************************************)
\* App.jsx lines 97-105: the listener of onAuthStateChange gets SIGNED_OUT
onAuthStateChange ==
  /\ ~signedOut
  /\ signedOut' = TRUE
  /\ history' = <<>>
  /\ analysisResult' = NoValue
  /\ view' = "input"
  /\ UNCHANGED <<isOnline, isLoading, toast>>
  /\ UNCHANGED <<envVars, storeVars, callVars, edgeVars>>
  /\ UNCHANGED <<deleted, lastRead, probe, scanVars>>

InitSignOut == InitLive

\* a signed-out user sees the sign-in form and cannot submit, and getSession
\* finds no session any more; the other steps of a submission made before
\* the sign-out go on
NextSignOut ==
  \/ onAuthStateChange
  \/ /\ pc = "idle" => ~signedOut
     /\ Next
     /\ signedOut /\ pc = "session" => session'.kind # "session"

SpecSignOut == InitSignOut /\ [][NextSignOut]_vars

(***************************************************************************)
(* BarcodeScanner (components/ErrorBoundary.jsx lines 102-343)             *)
(***************************************************************************)
MaxReaders == 2

ScanIdle == [at |-> "idle", codeReader |-> 0, video |-> FALSE]

E_NO_CAMERA == "No camera found on this device"

E_CAMERA == "Could not access camera"

E_LOOKUP == "lookup failed"

\* readers that are referenced or hold a stream
LiveReaders == (cameraOn \cup {codeReaderRef, scanPc.codeReader}) \ {0}

\* lines 648-661: the video element is rendered in camera mode only
videoRef == showBarcodeScanner /\ mode = "camera"

\* a state setter of an unmounted component changes nothing
SetState(old, new) == IF showBarcodeScanner THEN new ELSE old

\* lines 115-139: reset() ends the decoding and the stream of the referenced
\* reader, the tracks of the referenced stream are stopped, both refs are
\* nulled; the camera streams left open
stopScanning == cameraOn \ {codeReaderRef, streamRef}

\* what the scanner does not touch
nonScanVars == <<envVars, storeVars, appVars, callVars, edgeVars,
                 deleted, lastRead, probe, signedOut>>

\* App.jsx lines 538 and 634: a fresh BarcodeScanner is mounted
openScanner ==
  /\ ~showBarcodeScanner
  /\ scanPc.at = "idle" /\ cameraOn = {}
  /\ showBarcodeScanner' = TRUE
  /\ mode' = "select" /\ error' = "" /\ productInfo' = "null"
  /\ isScanning' = FALSE
  /\ codeReaderRef' = 0 /\ streamRef' = 0
  /\ UNCHANGED <<cameraOn, scanPc, stopped>>
  /\ UNCHANGED nonScanVars

\* lines 207-218: startCamera up to the await of listVideoInputDevices
startCamera ==
  /\ showBarcodeScanner /\ mode = "select"
  /\ scanPc.at = "idle"
  /\ \E r \in 1..MaxReaders :
       /\ r \notin LiveReaders
       /\ codeReaderRef' = r
       /\ scanPc' = [at |-> "devices", codeReader |-> r, video |-> FALSE]
  /\ error' = ""
  /\ mode' = "camera"
  /\ stopped' = FALSE
  /\ UNCHANGED <<showBarcodeScanner, productInfo, isScanning, streamRef, cameraOn>>
  /\ UNCHANGED nonScanVars

\* lines 266-276: the catch block of startCamera
startCameraCatch(message) ==
  /\ cameraOn' = stopScanning
  /\ codeReaderRef' = 0 /\ streamRef' = 0
  /\ isScanning' = FALSE
  /\ error' = SetState(error, message)
  /\ mode' = SetState(mode, "select")
  /\ scanPc' = ScanIdle
  /\ UNCHANGED <<showBarcodeScanner, productInfo, stopped>>

\* lines 218-241: listVideoInputDevices has settled with n devices (or has
\* thrown); with a device, decodeFromVideoDevice is called on the local
\* codeReader with the video element that is mounted at this moment
listVideoInputDevicesReturns(n, thrown) ==
  /\ scanPc.at = "devices"
  /\ IF thrown \/ n = 0
     THEN startCameraCatch(IF thrown THEN E_CAMERA ELSE E_NO_CAMERA)
     ELSE /\ isScanning' = SetState(isScanning, TRUE)
          /\ scanPc' = [scanPc EXCEPT !.at = "decode", !.video = videoRef]
          /\ UNCHANGED <<showBarcodeScanner, mode, error, productInfo,
                         codeReaderRef, streamRef, cameraOn, stopped>>
  /\ UNCHANGED nonScanVars

\* lines 241-265: decodeFromVideoDevice has settled; when it resolves the
\* reader has opened the camera and decodes, and the stream is kept in
\* streamRef only if the video element it was attached to is still mounted
decodeFromVideoDeviceReturns(thrown) ==
  /\ scanPc.at = "decode"
  /\ IF thrown
     THEN startCameraCatch(E_CAMERA)
     ELSE /\ cameraOn' = cameraOn \cup {scanPc.codeReader}
          /\ streamRef' = IF videoRef /\ scanPc.video THEN scanPc.codeReader
                          ELSE streamRef
          /\ scanPc' = ScanIdle
          /\ UNCHANGED <<showBarcodeScanner, mode, error, productInfo,
                         isScanning, codeReaderRef, stopped>>
  /\ UNCHANGED nonScanVars

\* lines 244-250 and 148-151: a decoding reader reports a barcode; the
\* callback stops scanning and starts the lookup
barcodeDetected ==
  /\ scanPc.at = "idle"
  /\ cameraOn # {}
  /\ cameraOn' = stopScanning
  /\ codeReaderRef' = 0 /\ streamRef' = 0
  /\ isScanning' = FALSE
  /\ mode' = SetState(mode, "processing")
  /\ error' = SetState(error, "")
  /\ scanPc' = [at |-> "lookup", codeReader |-> 0, video |-> FALSE]
  /\ UNCHANGED <<showBarcodeScanner, productInfo, stopped>>
  /\ UNCHANGED nonScanVars

\* lines 153-205: the lookup has settled: a product with ingredients, or not
lookupBarcodeReturns(found) ==
  /\ scanPc.at = "lookup"
  /\ IF found
     THEN /\ productInfo' = SetState(productInfo, "product")
          /\ mode' = SetState(mode, "result")
          /\ UNCHANGED error
     ELSE /\ error' = SetState(error, E_LOOKUP)
          /\ mode' = SetState(mode, "select")
          /\ UNCHANGED productInfo
  /\ scanPc' = ScanIdle
  /\ UNCHANGED <<showBarcodeScanner, isScanning, codeReaderRef, streamRef,
                 cameraOn, stopped>>
  /\ UNCHANGED nonScanVars

\* lines 332-338; the button is shown in camera mode and on the result
handleBack ==
  /\ showBarcodeScanner
  /\ mode = "camera" \/ (mode = "result" /\ productInfo # "null")
  /\ cameraOn' = stopScanning
  /\ codeReaderRef' = 0 /\ streamRef' = 0
  /\ isScanning' = FALSE
  /\ error' = ""
  /\ productInfo' = "null"
  /\ mode' = "select"
  /\ stopped' = TRUE
  /\ UNCHANGED <<showBarcodeScanner, scanPc>>
  /\ UNCHANGED nonScanVars

\* lines 340-343 and App.jsx line 626; the unmount runs stopScanning again
\* (lines 141-146), which finds both refs null
handleClose ==
  /\ showBarcodeScanner
  /\ cameraOn' = stopScanning
  /\ codeReaderRef' = 0 /\ streamRef' = 0
  /\ isScanning' = FALSE
  /\ showBarcodeScanner' = FALSE
  /\ stopped' = TRUE
  /\ UNCHANGED <<mode, error, productInfo, scanPc>>
  /\ UNCHANGED nonScanVars

\* lines 326-330 and App.jsx lines 265-268, the scanner's side: the scanner
\* is unmounted, the unmount runs stopScanning; the ingredients go to
\* handleAnalyze
handleUseIngredients ==
  /\ showBarcodeScanner
  /\ mode = "result" /\ productInfo # "null"
  /\ cameraOn' = stopScanning
  /\ codeReaderRef' = 0 /\ streamRef' = 0
  /\ isScanning' = FALSE
  /\ showBarcodeScanner' = FALSE
  /\ UNCHANGED <<mode, error, productInfo, scanPc, stopped>>
  /\ UNCHANGED nonScanVars

InitScanner == InitLive

NextScanner ==
  \/ openScanner
  \/ startCamera
  \/ \E n \in 0..1, thrown \in BOOLEAN : listVideoInputDevicesReturns(n, thrown)
  \/ \E thrown \in BOOLEAN : decodeFromVideoDeviceReturns(thrown)
  \/ barcodeDetected
  \/ \E found \in BOOLEAN : lookupBarcodeReturns(found)
  \/ handleBack
  \/ handleClose
  \/ handleUseIngredients

SpecScanner == InitScanner /\ [][NextScanner]_vars

(***************************************************************************)
(* Properties                                                              *)
(***************************************************************************)
FiveFields == {"judgment", "observations", "tradeoff", "limitations", "confidence"}

Settled == pc = "settled"

\* the fallback result is complete and is the first entry of the local cache
FallbackReturned ==
  /\ outcome.kind = "returned"
  /\ outcome.via = "fallback"
  /\ FiveFields \subseteq DOMAIN outcome.value
  /\ outcome.value.confidence.s \in {"low", "medium", "high"}

FirstCacheEntryIs(value) ==
  /\ Len(localStore) = Len(localAtStart) + 1
  /\ \A k \in DOMAIN value : k \in DOMAIN localStore[1] /\ localStore[1][k] = value[k]

RowWellShaped(row) ==
  /\ row.judgment.t = "string"
  /\ row.tradeoffs.t = "string"
  /\ row.uncertainty.t = "string"
  /\ row.confidence.t = "string"
  /\ row.confidence.s \in {"low", "medium", "high"}
  /\ row.key_factors.t = "array"
  /\ \A i \in 1..Len(row.key_factors.items) :
       /\ row.key_factors.items[i].t = "object"
       /\ row.key_factors.items[i].factor.t = "string"
       /\ row.key_factors.items[i].explanation.t = "string"

\* C1: analyzeIngredients issues the remote call only after validateInput
\* accepted the text and getSession returned a session without error; an
\* input that fails validation, and a valid input with a missing session or
\* a session error, is rejected with the matching message and no remote call
\* has been made.
C1_NoCallBeforeGuards ==
  /\ invocations > 0 => (validation.valid /\ session.kind = "session")
  /\ req # NoRequest => invocations > 0
  /\ (Settled /\ ~validation.valid) =>
       /\ outcome = Rejected(validation.error)
       /\ validation.error \in {E_ENTER_TEXT, E_TOO_SHORT, E_TOO_LONG}
       /\ invocations = 0
  /\ (Settled /\ validation.valid /\ session.kind = "error") =>
       (outcome = Rejected(E_SESSION_ERROR) /\ invocations = 0)
  /\ (Settled /\ validation.valid /\ session.kind = "none") =>
       (outcome = Rejected(E_MUST_SIGN_IN) /\ invocations = 0)

\* C1 witness: a valid text was submitted, getSession returned no session,
\* and the call has been rejected
C1_Witness ==
  /\ Settled /\ validation.valid /\ session.kind = "none"
  /\ outcome.kind = "rejected"

\* C2 (the claim as stated): when the remote call fails with a connectivity
\* failure, analyzeIngredients does not reject; it returns the complete
\* fallback result, and that result is in the local cache by then.
C2_Claim ==
  (Settled /\ result.class = "transport") =>
     (FallbackReturned /\ FirstCacheEntryIs(outcome.value))

\* C3 (the claim as stated): a fallback is returned only after a
\* connectivity failure; an error of the remote function with status 400 or
\* 401 is rejected whatever its message, and nothing is saved.
C3_Claim ==
  /\ (Settled /\ outcome.via = "fallback") => result.class \in {"transport", "abort"}
  /\ (Settled /\ result.kind = "error" /\ result.class = "http"
        /\ result.status \in {400, 401}) =>
       (outcome.kind = "rejected" /\ localStore = localAtStart)

\* C4 (the claim as stated): when the payload of the remote function lacks
\* a required field, analyzeIngredients rejects with the 'Incomplete
\* analysis response' error and nothing was persisted for the submission,
\* neither in the local cache nor in the analyses table, and no result is
\* set for display.
C4_Claim ==
  (pc \in {"settled", "done"} /\ result.kind = "data"
     /\ CheckData(result.data) = E_INCOMPLETE) =>
       /\ outcome = Rejected(E_INCOMPLETE)
       /\ localStore = localAtStart
       /\ inserted = 0
       /\ analysisResult = NoValue

\* C5 (the claim as stated): with the edge function of index.ts, a valid
\* submission of a signed-in user for which the model call and the insert
\* succeed is answered 200, and analyzeIngredients returns a result with the
\* five analysis fields and a non-null id.
C5_Claim ==
  (deployed = "index.ts" /\ Settled /\ delivered = 200 /\ inserted = 1) =>
     /\ outcome.kind = "returned"
     /\ FiveFields \subseteq DOMAIN outcome.value
     /\ "id" \in DOMAIN outcome.value
     /\ outcome.value.id.t = "string"

\* C6: the edge function fails closed: every row of the analyses table has
\* the shape validateResponse demands, the row written for a request holds
\* the values of the output callLLM returned, and an output that fails the
\* validation is never the one that reaches the insert.
C6_FailClosed ==
  /\ \A i \in 1..Len(db) : RowWellShaped(db[i])
  /\ srv = "insert" => llmResponse.t = "object"
  /\ inserted > 0 =>
       /\ inserted = 1
       /\ db[Len(db)].judgment = llmResponse.f.judgment
       /\ db[Len(db)].confidence = llmResponse.f.confidence
       /\ db[Len(db)].user_id = JStr(authUser)

\* C6 witness: a row was written after an earlier attempt had been refused
C6_Witness == inserted = 1 /\ llmCalls > 1

\* C7: the edge function calls the model at most 3 times for a request,
\* stops at the first success, waits 1000 ms after the first failure and
\* 2000 ms after the second and not after the third, and answers 503 when
\* all three attempts failed.
C7_BoundedRetry ==
  /\ llmCalls <= 3
  /\ llmCalls = retries + (IF llmResponse.t = "object" THEN 1 ELSE 0)
  /\ retries <= 3
  /\ waits = SubSeq(<<1000, 2000>>, 1, Min(retries, 2))
  /\ (retries = 3) <=> (resp.status = 503)
  /\ resp.status = 503 => (srv # "insert" /\ llmCalls = 3 /\ inserted = 0)

\* C7 witness: three attempts failed and the answer is 503
C7_Witness == resp.status = 503 /\ llmCalls = 3 /\ waits = <<1000, 2000>>

\* C8 (the claim as stated): an answer 503 of the edge function makes
\* analyzeIngredients return a fallback analysis instead of rejecting.
C8_Claim ==
  (Settled /\ delivered = 503) => (outcome.kind = "returned" /\ outcome.via = "fallback")

\* C8 (amended): an answer 503 is not by itself a connectivity signal: when
\* the error's message carries none of the connectivity markers,
\* analyzeIngredients rejects (with the service-error message when the
\* message says 'non-2xx') and produces and saves no fallback.
C8_Amended ==
  (Settled /\ delivered = 503 /\ result.message.toks \cap NetworkTokens = {}) =>
     /\ outcome.kind = "rejected"
     /\ localStore = localAtStart
     /\ msgIncludes(result.message, "non-2xx") => outcome.message = E_SERVICE_ERROR

\* C8 witness: the 503 arrived as a 'non-2xx' error and the call rejected
C8_Witness ==
  /\ Settled /\ delivered = 503 /\ msgIncludes(result.message, "non-2xx")
  /\ outcome = Rejected(E_SERVICE_ERROR)

\* C9 (the claim as stated): the call is aborted only when 60000 ms have
\* passed without an answer; an aborted call rejects with the 'taking too
\* long' message, never with a fallback or another message, and leaves the
\* local cache as it was.
C9_Claim ==
  /\ aborted => elapsed >= 60000
  /\ (aborted /\ pc \in {"settled", "done"}) =>
       /\ outcome = Rejected(E_TOO_LONG_RUNNING)
       /\ localStore = localAtStart

\* C10 (the claim as stated): an error of the remote function with status
\* 401, or whose message indicates an expired or invalid credential, is
\* rejected with 'Session expired. Please sign in again.' whatever else the
\* message contains.
C10_Claim ==
  (Settled /\ result.kind = "error"
     /\ (result.status = 401
         \/ result.message.toks \cap {"AuthApiError", "401", "unauthorized"} # {})) =>
       outcome = Rejected(E_SESSION_EXPIRED)

C12_Claim ==
  probe.fn = "validateInput" =>
    LET x == probe.arg
        v == probe.out
    IN /\ v.valid <=> (x.str /\ Length(trim(x)) \in 10..5000)
       /\ v.valid => v.text = trim(x)
       /\ (x.str /\ Length(trim(x)) <= 9) => (~v.valid /\ v.error = E_TOO_SHORT)
       /\ (x.str /\ Length(trim(x)) >= 5001) => (~v.valid /\ v.error = E_TOO_LONG)

\* C12 (amended): as stated, except that the empty string (like a value
\* that is not a string) is rejected with 'Please enter ingredient text';
\* every other string of trimmed length 9 or less gets the 'at least 10
\* characters' message.  Validating the accepted, trimmed text again gives
\* the same verdict and the same text.
C12_Amended ==
  probe.fn = "validateInput" =>
    LET x == probe.arg
        v == probe.out
    IN /\ v.valid <=> (x.str /\ Length(trim(x)) \in 10..5000)
       /\ v.valid => (v.text = trim(x) /\ Length(v.text) \in 10..5000)
       /\ (~x.str \/ Length(x) = 0) => (~v.valid /\ v.error = E_ENTER_TEXT)
       /\ (x.str /\ Length(x) > 0 /\ Length(trim(x)) <= 9) =>
            (~v.valid /\ v.error = E_TOO_SHORT)
       /\ (x.str /\ Length(trim(x)) >= 5001) => (~v.valid /\ v.error = E_TOO_LONG)
       /\ v.valid => validateInput(v.text) = v

\* C12 witness: a text with blanks around a body of exactly 10 characters
\* was accepted
C12_Witness ==
  /\ probe.fn = "validateInput" /\ probe.arg.str
  /\ probe.arg.lead > 0 /\ Length(trim(probe.arg)) = 10
  /\ probe.out.valid

\* C13: every row the edge function inserts carries as user_id the identity
\* the bearer token of the request resolved to; a request whose token is
\* missing, malformed or does not resolve inserts nothing, and the rows that
\* were there stay as they were.
C13_RowOwnerIsCaller ==
  [][db' # db =>
       /\ Len(db') = Len(db) + 1
       /\ SubSeq(db', 1, Len(db)) = db
       /\ db'[Len(db')].user_id = JStr(req.tokenUser)
       /\ req.auth = "bearer" /\ req.tokenUser \in Users /\ req.tokenValid]_vars

\* C13 witness: the table holds rows of two users, the last one written for
\* the caller of the current request
C13_Witness ==
  /\ inserted = 1 /\ Len(db) >= 2
  /\ db[Len(db)].user_id = JStr(req.tokenUser)
  /\ db[1].user_id # db[Len(db)].user_id

\* C14 (the claim as stated): every row of the analyses table has a
\* non-empty key_factors list.
C14_Claim ==
  \A i \in 1..Len(db) :
    db[i].key_factors.t = "array" /\ Len(db[i].key_factors.items) > 0

\* C15: the local cache never holds more than 50 entries, and every call of
\* saveLocalAnalysis that can write puts the entry it was given first (with
\* all the fields it was given), keeps the earlier entries behind it in
\* their order and drops the oldest ones beyond 50; a call that cannot
\* write leaves the cache as it was.
C15_CacheBounded ==
  /\ [](Len(localStore) <= MAX_HISTORY_ITEMS)
  /\ [][probe'.fn = "saveLocalAnalysis" /\ nextId' # nextId =>
         IF hasLocalStorage /\ ~quotaFull
         THEN /\ Len(localStore') = Min(Len(localStore) + 1, MAX_HISTORY_ITEMS)
              /\ \A k \in DOMAIN probe'.arg : localStore'[1][k] = probe'.arg[k]
              /\ Tail(localStore') = SubSeq(localStore, 1, Len(localStore') - 1)
         ELSE localStore' = localStore]_vars

\* a save into a full cache that dropped the oldest entry
C15_Witness ==
  /\ probe.fn = "saveLocalAnalysis"
  /\ Len(localAtStart) = MAX_HISTORY_ITEMS
  /\ Len(localStore) = MAX_HISTORY_ITEMS
  /\ localStore[2] = localAtStart[1]
  /\ localStore[MAX_HISTORY_ITEMS] = localAtStart[MAX_HISTORY_ITEMS - 1]

\* C16 (the claim as stated): once deleteAnalysis(id) or clearHistory() has
\* returned success, no later getHistory or getAnalysisById returns a record
\* whose deletion succeeded.
C16_Claim == lastRead \cap deleted = {}

\* the submission ended with its result on display
ResultShown ==
  /\ outcome.kind = "returned"
  /\ analysisResult = outcome.value
  /\ view = "result"
  /\ toast.type = "success"

\* the submission ended with an error toast that has a message
ErrorShown ==
  /\ toast.type = "error"
  /\ Truthy(toast.message)
  /\ analysisResult = NoValue

ModelSaid(version, data) ==
  IF version = "index.ts"
  THEN [judgment |-> data.f.judgment, tradeoff |-> data.f.tradeoffs,
        limitations |-> data.f.uncertainty, confidence |-> data.f.confidence,
        factors |-> [i \in 1..Len(data.f.key_factors.items) |->
                       <<data.f.key_factors.items[i].factor,
                         data.f.key_factors.items[i].explanation>>]]
  ELSE [judgment |-> data.f.judgment, tradeoff |-> data.f.tradeoff,
        limitations |-> data.f.limitations, confidence |-> data.f.confidence,
        factors |-> [i \in 1..Len(data.f.observations.items) |->
                       <<data.f.observations.items[i].observation,
                         data.f.observations.items[i].why>>]]

\* what a record read from the table says
RecordSays(row) ==
  [judgment |-> row.judgment, tradeoff |-> row.tradeoffs,
   limitations |-> row.uncertainty, confidence |-> row.confidence,
   factors |-> [i \in 1..Len(row.key_factors.items) |->
                  <<row.key_factors.items[i].factor,
                    row.key_factors.items[i].explanation>>]]

\* C18: when the edge function has stored the output of the model and
\* answered with the id of the row, the record the owner reads back by that
\* id has the judgment, tradeoff, limitations and confidence of the model
\* output and the same factors: as many, in the same order, with the same
\* names and explanations.
C18_RoundTrip ==
  inserted = 1 /\ resp.status = 200 =>
    LET row == getAnalysisById("ok", authUser, db, hasLocalStorage, localStore,
                               resp.body.id)
    IN /\ row # JNull
       /\ row.id = resp.body.id
       /\ RecordSays(row) = ModelSaid(deployed, llmResponse)

\* the function of schema.sql stored an output with two observations
C18_Witness ==
  /\ inserted = 1 /\ resp.status = 200
  /\ deployed = "schema.sql"
  /\ Len(llmResponse.f.observations.items) = 2
  /\ db[Len(db)].id = resp.body.id
  /\ Len(db[Len(db)].key_factors.items) = 2

\* the factors the signals of the text trigger, by name and in the order in
\* which the engine looks at the signals: count, sweetener, preservative,
\* emulsifier, color, natural positioning; a text that does not look like an
\* ingredient list triggers none
SignalsTriggered(text) ==
  IF ~looksLikeIngredients(text) THEN <<>>
  ELSE LET lower == toLowerCase(text)
           count == commaCount(text) + 1
           n(list) == Cardinality(Matches(list, lower))
       IN (IF count > 15 THEN <<"Long ingredient list">>
           ELSE IF count <= 5 THEN <<"Short, simple list">> ELSE <<>>)
          \o (IF n(sweeteners) > 1 THEN <<"Multiple sweetening agents">>
              ELSE IF n(sweeteners) = 1 THEN <<"Sweetness is central">> ELSE <<>>)
          \o (IF n(preservatives) > 0 THEN <<"Built to last on a shelf">> ELSE <<>>)
          \o (IF n(emulsifiers) > 0 THEN <<"Texture is engineered">> ELSE <<>>)
          \o (IF n(colors) > 0 THEN <<"Color is added for appeal">> ELSE <<>>)
          \o (IF n(naturalIndicators) >= 2 THEN <<"Positioned as natural">> ELSE <<>>)

\* the names of the factors of a result
FactorNames(value) ==
  [i \in 1..Len(value.observations.items) |-> value.observations.items[i].observation.s]

\* C21: the confidence of the result of buildFallbackAnalysis is medium when
\* three or more signals triggered a factor and low otherwise; it is never
\* high.
C21_FallbackConfidence ==
  probe.fn = "buildFallbackAnalysis" =>
    /\ probe.out.confidence =
         JStr(IF Len(SignalsTriggered(probe.arg)) >= 3 THEN "medium" ELSE "low")
    /\ probe.out.confidence # JStr("high")

\* the six-item list with a sweetener, a preservative and a color got medium
C21_Witness ==
  /\ probe.fn = "buildFallbackAnalysis"
  /\ probe.arg.words = <<"water", "sugar", "citric acid", "sodium benzoate",
                          "red 40", "natural flavor">>
  /\ probe.arg.comma
  /\ Len(SignalsTriggered(probe.arg)) = 3
  /\ probe.out.confidence = JStr("medium")

\* the factor list has 1 to 4 entries, is the single generic entry exactly
\* when no signal triggered, and otherwise lists triggered signals from the
\* first on in their fixed order
FactorListAsClaimed(text, value) ==
  LET names == FactorNames(value)
      triggered == SignalsTriggered(text)
  IN /\ Len(names) \in 1..4
     /\ (triggered = <<>>) <=> (names = <<"Standard product">>)
     /\ triggered # <<>> => names = Take(triggered, Len(names))

C23_Claim ==
  \A i \in 1..Len(localStore) :
    /\ "id" \in DOMAIN localStore[i]
    /\ localStore[i].id.t \notin {"null", "undefined"}

\* C24 (the claim as stated): from a SIGNED_OUT event on, history stays
\* empty and analysisResult stays null, also when a handleAnalyze call was
\* still waiting.
C24_Claim == signedOut => history = <<>> /\ analysisResult = NoValue

\* the user a record returned by getHistory belongs to: the user_id it
\* carries, or that of the row of the table it was selected from
OwnerOf(record) ==
  IF "user_id" \in DOMAIN record THEN record.user_id.s
  ELSE LET Hit(r) == r.id = record.id IN SelectSeq(db, Hit)[1].user_id.s

\* C25 (the claim as stated): whatever way getHistory takes, every record it
\* returns to the signed-in user is that user's.
C25_Claim ==
  session.kind = "session" =>
    \A kind \in {"ok", "jwt", "missing_table", "throw", "other"} :
      LET data == getHistory(kind, session.user, db, hasLocalStorage, localStore).data
      IN \A i \in 1..Len(data) : OwnerOf(data[i]) = session.user

\* C26: a request inserts at most one row; a row is inserted only after a
\* model call that returned a validated answer, by a step that answers 200;
\* a request answered 400, 401, 405, 500 or 503 has inserted none.
C26_AtMostOneInsert ==
  /\ [](/\ inserted <= 1
        /\ inserted = 1 =>
             /\ llmCalls >= 1
             /\ IF deployed = "index.ts" THEN validateResponse(llmResponse)
                ELSE validateResponseV2(llmResponse)
        /\ (srv = "done" /\ resp.status \in {400, 401, 405, 500, 503}) => inserted = 0)
  /\ [][db' # db =>
         /\ Len(db') = Len(db) + 1
         /\ inserted = 0 /\ inserted' = 1
         /\ llmCalls >= 1 /\ llmResponse # JNull
         /\ resp'.status = 200]_vars

\* the second model call succeeded, and the request inserted its one row
\* next to one that was there
C26_Witness ==
  /\ srv = "done" /\ resp.status = 200
  /\ llmCalls = 2
  /\ inserted = 1
  /\ Len(db) = 2

\* C27: the checks of the edge function answer 400 for a text exactly when
\* validateInput rejects it; the text they pass on, and the text stored in
\* the row, is the text validateInput returns, and the checks leave a text
\* that validateInput returned, which is what the client sends, as it is.
C27_ValidationAgrees ==
  probe.fn = "checkInputText" =>
    LET v == validateInput(probe.arg) IN
    /\ v.valid <=> probe.out.check.status # 400
    /\ v.valid =>
         /\ probe.out.check.trimmedInput = v.text
         /\ probe.out.stored = v.text
         /\ checkInputText(v.text).status # 400
         /\ checkInputText(v.text).trimmedInput = v.text

\* a text of 5000 characters between blanks passed both
C27_Witness ==
  /\ probe.fn = "checkInputText"
  /\ probe.arg.str /\ probe.arg.lead > 0 /\ probe.arg.trail > 0
  /\ Length(trim(probe.arg)) = MAX_INPUT_LENGTH
  /\ validateInput(probe.arg).valid
  /\ probe.out.check.status = 0
  /\ probe.out.stored = trim(probe.arg)
  /\ probe.out.stored # probe.arg

\* C28: a handleAnalyze call made while isOnline is false ends at once; it
\* shows the offline error toast and changes nothing else: not view,
\* analysisResult, history or isLoading, no request is made, no analysis is
\* produced and the local cache and the table are not written.
C28_OfflineOnlyToast ==
  [][(pc = "idle" /\ pc' # "idle" /\ ~isOnline) =>
       /\ pc' = "done"
       /\ toast' = Toast("error", Msg("You are offline. Please check your connection.", {}))
       /\ UNCHANGED <<isOnline, isLoading, analysisResult, history, view>>
       /\ UNCHANGED <<validation, outcome, result, invocations, req, srv>>
       /\ UNCHANGED <<localStore, db>>]_vars

\* an offline submission has ended with the toast and without a call
C28_Witness ==
  /\ pc = "done" /\ ~isOnline
  /\ toast = Toast("error", Msg("You are offline. Please check your connection.", {}))
  /\ invocations = 0 /\ outcome = NoOutcome
  /\ ~isLoading /\ view = "input" /\ analysisResult = NoValue
  /\ localStore = localAtStart

\* C29: the 60 s abort timer is pending only while analyzeIngredients awaits
\* the remote call; once the invocation has settled, by a return or by a
\* rejection on any path, no timer is left.
C29_TimerCleared == timerPending => pc = "invoke"

\* an invocation whose remote call threw has settled with the timer cleared
C29_Witness ==
  /\ pc = "settled" /\ invocations = 1 /\ result.kind = "throw"
  /\ outcome.kind = "rejected" /\ ~timerPending

\* C30: once handleClose or handleBack has run, and until startCamera is
\* called again, isScanning is false, no code reader is referenced and no
\* reader holds an open camera stream.
C30_Claim ==
  stopped => ~isScanning /\ codeReaderRef = 0 /\ streamRef = 0 /\ cameraOn = {}

\* a POST request with a resolving bearer token and an input_text of
\* trimmed length 10 to 5000
ValidRequest(r) ==
  /\ r.method = "POST"
  /\ r.auth = "bearer" /\ r.tokenUser # "" /\ r.tokenValid
  /\ r.json /\ r.input_text.str
  /\ Length(trim(r.input_text)) \in 10..5000

BadCredential(r) == r.auth # "bearer" \/ r.tokenUser = "" \/ ~r.tokenValid

SignalCount(text) == Cardinality(Matches(ingredientSignals, toLowerCase(text)))

\* C20 (the claim as stated): buildFallbackAnalysis returns the fixed
\* 'doesn't look like an ingredient list' result, of confidence low, exactly
\* when the text has fewer than 2 signal words and fewer than 2 commas.
C20_Claim ==
  probe.fn = "buildFallbackAnalysis" =>
    /\ (probe.out = NotIngredientsResult) <=>
         (SignalCount(probe.arg) < 2 /\ commaCount(probe.arg) < 2)
    /\ NotIngredientsResult.confidence = JStr("low")

\* C20 (amended): the fixed result is returned exactly when the text has
\* fewer than 2 signal words and, besides, fewer than 2 commas or no signal
\* word at all: two commas make a text plausible only together with at
\* least one signal word.
C20_Amended ==
  probe.fn = "buildFallbackAnalysis" =>
    /\ (probe.out = NotIngredientsResult) <=>
         /\ SignalCount(probe.arg) < 2
         /\ (commaCount(probe.arg) < 2 \/ SignalCount(probe.arg) = 0)
    /\ probe.out = NotIngredientsResult => probe.out.confidence = JStr("low")
    /\ probe.out # NotIngredientsResult =>
         /\ Len(probe.out.observations.items) \in 1..3
         /\ probe.out.confidence.s \in {"low", "medium"}

\* C20 witness: a text with two commas and no signal word got the fixed
\* result
C20_Witness ==
  /\ probe.fn = "buildFallbackAnalysis"
  /\ commaCount(probe.arg) >= 2 /\ SignalCount(probe.arg) = 0
  /\ probe.out = NotIngredientsResult

=============================================================================
